---------------------------- MODULE Spec2Model ----------------------------
(***************************************************************************)
(* Verification model of the WCAG agent-skills command line tools:         *)
(*   - contrast ratio calculator            (src/unnamed/part_002)         *)
(*   - colour-blindness simulator           (src/unnamed/part_001)         *)
(*   - touch target size checker            (src/unnamed/part_000)         *)
(*   - motion tester, font converter,                                      *)
(*     metadata validator                   (.../text-size/.../convert.js) *)
(*   - focus order validator                (.../keyboard-focus/validate.js)*)
(*   - metadata aggregator (build)          (src/unnamed/part_003)         *)
(*                                                                         *)
(* Every tool is one process invocation: it starts with the parsed command *)
(* line (options), runs main() to completion and ends with an exit code    *)
(* and the lines it printed.  The aggregator additionally keeps files on   *)
(* disk between invocations.                                               *)
(*                                                                         *)
(* JavaScript values are tagged records, strings that the code inspects    *)
(* character by character are sequences of one-character strings, and      *)
(* floating point quantities are fixed-point integers (scales named below);*)
(* font sizes are exact fractions.                                         *)
(***************************************************************************)
EXTENDS Integers, Sequences, FiniteSets, TLC

VARIABLES
  pc,         \* position of the running process: "start" | "exit"
  options,    \* the record parseArgs() returned (the input of main)
  exitCode,   \* process exit code, -1 while running
  stdout,     \* lines printed with console.log
  stderr,     \* lines printed with console.error
  result,     \* value returned by the pure function under study
  files,      \* aggregator: SKILL.md front matter found on disk
  readme,     \* aggregator: README.md on disk (sequence of text blocks)
  agentsMd,   \* aggregator: AGENTS.md on disk
  skillsJson, \* aggregator: config/skills.json on disk
  runs        \* aggregator: number of completed build() runs

vars == <<pc, options, exitCode, stdout, stderr, result,
          files, readme, agentsMd, skillsJson, runs>>

-----------------------------------------------------------------------------
(* JavaScript values                                                       *)

Undef == [t |-> "undefined"]
Null == [t |-> "null"]
Str(s) == [t |-> "string", s |-> s]
Bool(b) == [t |-> "boolean", b |-> b]
Num(n) == [t |-> "number", nan |-> FALSE, v |-> n]
NaN == [t |-> "number", nan |-> TRUE, v |-> 0]

\* ToBoolean: undefined, null, "", 0, NaN and false are falsy
Truthy(x) ==
  CASE x.t = "undefined" -> FALSE
    [] x.t = "null" -> FALSE
    [] x.t = "string" -> Len(x.s) > 0
    [] x.t = "boolean" -> x.b
    [] x.t = "number" -> ~x.nan /\ x.v # 0
    [] OTHER -> TRUE

\* a || b
Or(a, b) == IF Truthy(a) THEN a ELSE b

-----------------------------------------------------------------------------
(* Strings as sequences of characters                                      *)

Digits == <<"0", "1", "2", "3", "4", "5", "6", "7", "8", "9">>
HexLetters == <<"a", "b", "c", "d", "e", "f">>
LowerLetters ==
  <<"a", "b", "c", "d", "e", "f", "g", "h", "i", "j", "k", "l", "m",
    "n", "o", "p", "q", "r", "s", "t", "u", "v", "w", "x", "y", "z">>
UpperLetters ==
  <<"A", "B", "C", "D", "E", "F", "G", "H", "I", "J", "K", "L", "M",
    "N", "O", "P", "Q", "R", "S", "T", "U", "V", "W", "X", "Y", "Z">>

IndexOf(c, tbl) ==
  IF \E i \in 1..Len(tbl) : tbl[i] = c
  THEN CHOOSE i \in 1..Len(tbl) : tbl[i] = c
  ELSE 0

\* String.prototype.toLowerCase, character by character
LowerChar(c) ==
  IF IndexOf(c, UpperLetters) > 0
  THEN LowerLetters[IndexOf(c, UpperLetters)]
  ELSE c

toLowerCase(s) == [i \in 1..Len(s) |-> LowerChar(s[i])]

IsSpace(c) == c = " "

RECURSIVE trimStart(_)
trimStart(s) ==
  IF Len(s) > 0 /\ IsSpace(Head(s)) THEN trimStart(Tail(s)) ELSE s

RECURSIVE trimEnd(_)
trimEnd(s) ==
  IF Len(s) > 0 /\ IsSpace(s[Len(s)])
  THEN trimEnd(SubSeq(s, 1, Len(s) - 1)) ELSE s

trim(s) == trimEnd(trimStart(s))

startsWith(s, p) == Len(s) >= Len(p) /\ SubSeq(s, 1, Len(p)) = p
endsWith(s, p) ==
  Len(s) >= Len(p) /\ SubSeq(s, Len(s) - Len(p) + 1, Len(s)) = p

\* s.slice(from) and s.slice(from, to) with 0-based, end-exclusive indices;
\* a negative "to" counts from the end
slice(s, from, to) ==
  LET e == IF to < 0 THEN Len(s) + to ELSE IF to > Len(s) THEN Len(s) ELSE to
  IN  IF from >= e THEN <<>> ELSE SubSeq(s, from + 1, e)

\* s.split(sep) for a one-character separator
RECURSIVE split(_, _)
split(s, sep) ==
  IF \E i \in 1..Len(s) : s[i] = sep
  THEN LET i == CHOOSE k \in 1..Len(s) :
                  s[k] = sep /\ \A j \in 1..(k - 1) : s[j] # sep
       IN  <<SubSeq(s, 1, i - 1)>> \o split(SubSeq(s, i + 1, Len(s)), sep)
  ELSE <<s>>

\* value of a digit in the given radix, -1 when it is not a digit of it
DigitVal(c, radix) ==
  LET d == IndexOf(c, Digits)
      h == IndexOf(c, HexLetters)
  IN  IF d > 0 THEN d - 1
      ELSE IF h > 0 /\ radix = 16 THEN 9 + h
      ELSE -1

\* the longest prefix of s made of digits of the radix
RECURSIVE digitPrefix(_, _)
digitPrefix(s, radix) ==
  IF Len(s) > 0 /\ DigitVal(Head(s), radix) >= 0
  THEN <<Head(s)>> \o digitPrefix(Tail(s), radix)
  ELSE <<>>

RECURSIVE digitsValue(_, _, _)
digitsValue(s, radix, acc) ==
  IF Len(s) = 0 THEN acc
  ELSE digitsValue(Tail(s), radix, acc * radix + DigitVal(Head(s), radix))

\* parseInt(string, radix): skips leading white space, takes an optional
\* sign, strips "0x" when the radix is 16 or absent (radix = 0), parses the
\* longest prefix of digits and yields NaN when that prefix is empty.
parseInt(str, radix) ==
  LET Value(sign, ds, r) ==
        IF Len(ds) = 0 THEN NaN ELSE Num(sign * digitsValue(ds, r, 0))
      Digits0(sign, s2, r) == Value(sign, digitPrefix(s2, r), r)
      Unsigned(sign, s1) ==
        IF radix \in {0, 16} /\ startsWith(s1, <<"0", "x">>)
        THEN Digits0(sign, SubSeq(s1, 3, Len(s1)), 16)
        ELSE Digits0(sign, s1, IF radix = 0 THEN 10 ELSE radix)
      Signed(s0) ==
        IF Len(s0) > 0 /\ Head(s0) \in {"-", "+"}
        THEN Unsigned(IF Head(s0) = "-" THEN -1 ELSE 1, Tail(s0))
        ELSE Unsigned(1, s0)
  IN  Signed(trimStart(str))

-----------------------------------------------------------------------------
(* The parsed --json blob.  options.json is the text of the blob; the      *)
(* model keeps what JSON.parse makes of it: an object (a function from     *)
(* field names to values) or a SyntaxError.                                *)

Json(obj) == [t |-> "json", valid |-> TRUE, obj |-> obj]
BadJson == [t |-> "json", valid |-> FALSE, obj |-> <<>>]

\* JSON.parse(options.json); a bare --json flag stores true, which parses
\* to the value true and has no fields
JSONparse(j) ==
  IF j.t = "json"
  THEN [ok |-> j.valid, obj |-> j.obj]
  ELSE [ok |-> TRUE, obj |-> <<>>]

\* jsonInput.k (undefined when the blob has no such field)
Field(obj, k) == IF k \in DOMAIN obj THEN obj[k] ELSE Undef

Line(kind, value) == [kind |-> kind, value |-> value]

-----------------------------------------------------------------------------
(* Contrast ratio calculator, src/unnamed/part_002                         *)

LumScale == 1000000

\* parseColor results: null, a colour, process.exit(1) inside the call, or
\* a TypeError thrown by color.trim() on a non-string
NullColor == [kind |-> "null"]
Color(r, g, b) == [kind |-> "color", r |-> r, g |-> g, b |-> b]
ExitInCall == [kind |-> "exit"]
Thrown == [kind |-> "throw"]

Hash == <<"#">>
RgbOpen == <<"r", "g", "b", "(">>
HslOpen == <<"h", "s", "l", "(">>
Close == <<")">>

\* the hex and rgb( ) branches, the same text in both parseColor functions;
\* NoColor when neither branch returns
NoColor == [kind |-> "none"]
parseHexOrRgb(color) ==
  LET Values(parts) ==
        [i \in 1..Len(parts) |-> parseInt(trim(parts[i]), 0)]
      Branches(hex, values) ==
        IF startsWith(color, Hash) /\ Len(hex) = 3
        THEN Color(parseInt(<<hex[1], hex[1]>>, 16),
                   parseInt(<<hex[2], hex[2]>>, 16),
                   parseInt(<<hex[3], hex[3]>>, 16))
        ELSE IF startsWith(color, Hash) /\ Len(hex) = 6
        THEN Color(parseInt(slice(hex, 0, 2), 16),
                   parseInt(slice(hex, 2, 4), 16),
                   parseInt(slice(hex, 4, 6), 16))
        ELSE IF startsWith(color, RgbOpen) /\ endsWith(color, Close)
                /\ Len(values) = 3
        THEN Color(values[1], values[2], values[3])
        ELSE NoColor
  IN  Branches(slice(color, 1, Len(color)),
               Values(split(slice(color, 4, -1), ",")))

parseColor(arg) ==
  IF ~Truthy(arg) THEN NullColor
  ELSE IF arg.t # "string" THEN Thrown
  ELSE LET Rest(color, c) ==
             IF c.kind # "none" THEN c
             ELSE IF startsWith(color, HslOpen) /\ endsWith(color, Close)
             THEN ExitInCall
             ELSE NullColor
           Parse(color) == Rest(color, parseHexOrRgb(color))
       IN  Parse(toLowerCase(trim(arg.s)))

\* toLinear(value) * 100000, rounded: the table holds
\* v <= 0.03928 ? v / 12.92 : Math.pow((v + 0.055) / 1.055, 2.4) for
\* v = value / 255 and value = 0..300
LinearTable ==
  <<
     0, 30, 61, 91, 121, 152, 182, 212, 243, 273, 304, 335, 368, 402, 439,
     478, 518, 561, 605, 651, 700, 750, 802, 857, 913, 972, 1033, 1096, 1161, 1229,
     1298, 1370, 1444, 1521, 1600, 1681, 1764, 1850, 1938, 2029, 2122, 2217, 2315, 2416, 2519,
     2624, 2732, 2843, 2956, 3071, 3190, 3310, 3434, 3560, 3689, 3820, 3955, 4092, 4231, 4374,
     4519, 4667, 4817, 4971, 5127, 5286, 5448, 5613, 5781, 5951, 6125, 6301, 6480, 6663, 6848,
     7036, 7227, 7421, 7619, 7819, 8022, 8228, 8438, 8650, 8866, 9084, 9306, 9531, 9759, 9990,
     10224, 10462, 10702, 10946, 11193, 11444, 11697, 11954, 12214, 12477, 12744, 13014, 13287, 13563, 13843,
     14126, 14413, 14703, 14996, 15293, 15593, 15896, 16203, 16513, 16827, 17144, 17465, 17789, 18116, 18447,
     18782, 19120, 19462, 19807, 20156, 20508, 20864, 21223, 21586, 21953, 22323, 22697, 23074, 23455, 23840,
     24228, 24620, 25016, 25415, 25818, 26225, 26636, 27050, 27468, 27889, 28315, 28744, 29177, 29614, 30054,
     30499, 30947, 31399, 31855, 32314, 32778, 33245, 33716, 34191, 34670, 35153, 35640, 36131, 36625, 37124,
     37626, 38133, 38643, 39157, 39676, 40198, 40724, 41254, 41789, 42327, 42869, 43415, 43966, 44520, 45079,
     45641, 46208, 46778, 47353, 47932, 48515, 49102, 49693, 50289, 50888, 51492, 52100, 52712, 53328, 53948,
     54572, 55201, 55834, 56471, 57112, 57758, 58408, 59062, 59720, 60383, 61050, 61721, 62396, 63076, 63760,
     64448, 65141, 65837, 66539, 67244, 67954, 68669, 69387, 70110, 70838, 71569, 72306, 73046, 73791, 74540,
     75294, 76052, 76815, 77582, 78354, 79130, 79910, 80695, 81485, 82279, 83077, 83880, 84687, 85499, 86316,
     87137, 87962, 88792, 89627, 90466, 91310, 92158, 93011, 93869, 94731, 95597, 96469, 97345, 98225, 99110,
     100000, 100894, 101794, 102697, 103606, 104519, 105436, 106359, 107286, 108218, 109154, 110096, 111042, 111992, 112948,
     113908, 114873, 115842, 116817, 117796, 118780, 119769, 120762, 121760, 122763, 123771, 124784, 125801, 126824, 127851,
     128883, 129920, 130962, 132008, 133060, 134116, 135177, 136243, 137314, 138390, 139470, 140556, 141647, 142742, 143843,
     144948
  >>

\* toLinear for an integer channel; below 0 the linear branch v / 12.92
toLinear(value) ==
  IF value >= 0 THEN LinearTable[value + 1]
  ELSE (value * 10000000) \div 329460

\* relative luminance * LumScale, NaN when a channel is NaN
getRelativeLuminance(color) ==
  IF color.r.nan \/ color.g.nan \/ color.b.nan THEN NaN
  ELSE Num((2126 * toLinear(color.r.v) + 7152 * toLinear(color.g.v)
            + 722 * toLinear(color.b.v)) \div 1000)

\* a ratio is the fraction num / den, or NaN
Ratio(num, den) == [nan |-> FALSE, num |-> num, den |-> den]
NaNRatio == [nan |-> TRUE, num |-> 0, den |-> 1]

Max(a, b) == IF a >= b THEN a ELSE b
Min(a, b) == IF a <= b THEN a ELSE b

\* the ratio taken in argument order, without Math.max / Math.min
getContrastRatio_unordered(color1, color2) ==
  LET Divide(lum1, lum2) ==
        IF lum1.nan \/ lum2.nan THEN NaNRatio
        ELSE Ratio(lum1.v + LumScale \div 20, lum2.v + LumScale \div 20)
  IN  Divide(getRelativeLuminance(color1), getRelativeLuminance(color2))

\* the flare term 0.05 added to the darker luminance only
getContrastRatio_flare(color1, color2) ==
  LET Divide(lum1, lum2) ==
        IF lum1.nan \/ lum2.nan THEN NaNRatio
        ELSE Ratio(Max(lum1.v, lum2.v) + LumScale \div 10,
                   Min(lum1.v, lum2.v) + LumScale \div 20)
  IN  Divide(getRelativeLuminance(color1), getRelativeLuminance(color2))

getContrastRatio(color1, color2) ==
  LET Divide(lum1, lum2) ==
        IF lum1.nan \/ lum2.nan THEN NaNRatio
        ELSE LET lighter == Max(lum1.v, lum2.v)
                 darker == Min(lum1.v, lum2.v)
             IN  Ratio(lighter + LumScale \div 20, darker + LumScale \div 20)
  IN  Divide(getRelativeLuminance(color1), getRelativeLuminance(color2))

\* Math.round(ratio * 100): the ratio in hundredths, rounded half up
Round100(ratio) == (200 * ratio.num + ratio.den) \div (2 * ratio.den)

\* roundedRatio >= threshold, the threshold given in hundredths; every
\* comparison with NaN is false
RoundedAtLeast(ratio, hundredths) ==
  ~ratio.nan /\ Round100(ratio) >= hundredths

checkCompliance(ratio, type) ==
  IF type = Str("non-text")
  THEN [AA |-> RoundedAtLeast(ratio, 300), AAA |-> RoundedAtLeast(ratio, 300)]
  ELSE [AA |-> [normal |-> RoundedAtLeast(ratio, 450),
                large |-> RoundedAtLeast(ratio, 300)],
        AAA |-> [normal |-> RoundedAtLeast(ratio, 700),
                 large |-> RoundedAtLeast(ratio, 450)]]

\* what the tool prints for the ratio: Math.round(ratio * 100) / 100
ShownRatio(ratio) == IF ratio.nan THEN NaN ELSE Num(Round100(ratio))

\* the process after main(): what it printed and how it exited
Exit(code, out, err) == [exitCode |-> code, stdout |-> out, stderr |-> err]

UsageContrast == <<Line("usage", "calculate.js"), Line("usage", "calculate.js --json")>>

contrast_report(opts, fgColor, bgColor) ==
  LET Output(type, shown, compliance) ==
        IF Truthy(opts.json)
        THEN Exit(0, <<[kind |-> "json", contrastRatio |-> shown,
                        compliance |-> compliance,
                        foreground |-> fgColor, background |-> bgColor]>>, <<>>)
        ELSE IF type = Str("non-text")
        THEN Exit(0, <<Line("ratio", shown),
                       Line("Non-text contrast", compliance.AA)>>, <<>>)
        ELSE Exit(0, <<Line("ratio", shown),
                       Line("AA Normal Text", compliance.AA.normal),
                       Line("AA Large Text", compliance.AA.large),
                       Line("AAA Normal Text", compliance.AAA.normal),
                       Line("AAA Large Text", compliance.AAA.large)>>, <<>>)
      Check(type, ratio) ==
        Output(type, ShownRatio(ratio), checkCompliance(ratio, type))
  IN  Check(Or(opts.type, Str("text")), getContrastRatio(fgColor, bgColor))

\* main() after the JSON blob has been merged into the options
contrast_colors(opts) ==
  LET Colors(fgColor, bgColor) ==
        IF fgColor.kind = "throw"
        THEN Exit(1, <<>>, <<Line("uncaught", "TypeError")>>)
        ELSE IF fgColor.kind = "exit"
        THEN Exit(1, <<>>, <<Line("error", "HSL color format not yet supported")>>)
        ELSE IF bgColor.kind = "throw"
        THEN Exit(1, <<>>, <<Line("uncaught", "TypeError")>>)
        ELSE IF bgColor.kind = "exit"
        THEN Exit(1, <<>>, <<Line("error", "HSL color format not yet supported")>>)
        ELSE IF fgColor.kind = "null" \/ bgColor.kind = "null"
        THEN Exit(1, <<>>, UsageContrast)
        ELSE contrast_report(opts, fgColor, bgColor)
  IN  Colors(parseColor(Or(opts.foreground, opts.fg)),
             parseColor(Or(opts.background, opts.bg)))

\* the options after the "Handle JSON input" block of main()
contrast_mergeJson(opts, obj) ==
  [opts EXCEPT !.foreground = Field(obj, "foreground"),
               !.background = Field(obj, "background"),
               !.type = Or(Field(obj, "type"), Str("text"))]

contrast_main(opts) ==
  IF Truthy(opts.json) /\ ~JSONparse(opts.json).ok
  THEN Exit(1, <<>>, <<Line("error", "Invalid JSON input")>>)
  ELSE contrast_colors(IF Truthy(opts.json)
                       THEN contrast_mergeJson(opts, JSONparse(opts.json).obj)
                       ELSE opts)

-----------------------------------------------------------------------------
(* Inputs of the colour tools                                              *)

HexSampleChars == {"0", "f", "g"}

RgbText(a, b, c) == RgbOpen \o a \o <<",">> \o b \o <<",">> \o c \o Close

RgbSampleParts ==
  {<<"0">>, <<"2", "5", "5">>, <<" ", "1", "4", "9">>, <<"3", "0", "0">>,
   <<"-", "5">>, <<"x">>, <<"1", "2", "p", "x">>}

ColorTexts ==
  {Hash \o <<a, b, c>> : a \in HexSampleChars, b \in HexSampleChars,
                         c \in HexSampleChars}
  \cup {<<"#", "F", "0", "0">>, <<" ", "#", "f", "f", "f", " ">>,
        <<"#", "e", "f", "0", "0", "0", "0">>,
        <<"#", "f", "f", "f", "f", "f", "f">>,
        <<"#", "0", "0", "0", "0", "0", "0">>,
        <<"#", "9", "5", "9", "5", "9", "5">>,
        <<"#", "g", "g", "g", "g", "g", "g">>,
        <<"#", "0", "0", "0", "0", "g", "0">>,
        <<"#", "-", "f", "0", "0", "0", "0">>,
        <<"#">>, <<"#", "f", "f">>, <<"#", "f", "f", "f", "f">>,
        <<"#", "f", "f", "f", "f", "f", "f", "f">>}
  \cup {RgbText(a, <<"0">>, <<"0">>) : a \in RgbSampleParts}
  \cup {RgbText(<<"2", "5", "5">>, <<"2", "5", "5">>, <<"2", "5", "5">>),
        RgbOpen \o <<"0", ",", "0">> \o Close,
        RgbOpen \o Close,
        RgbOpen \o <<"1", ",", "2", ",", "3", ",", "4">> \o Close,
        <<"R", "G", "B", "(", "0", ",", "0", ",", "0", ")">>,
        HslOpen \o <<"0", ",", "0", "%", ",", "0", "%">> \o Close,
        HslOpen \o <<"x">> \o Close,
        <<"r", "e", "d">>}

\* a value of a colour flag: a non-empty string, absent, or true (parseArgs
\* stores true for a flag without value)
ColorArgs == {Str(s) : s \in ColorTexts} \cup {Undef, Bool(TRUE)}

JsonColorArgs ==
  {Undef, Num(0), Str(<<>>), Str(<<"#", "f", "f", "f">>),
   Str(<<"#", "g", "g", "g">>),
   Str(RgbText(<<"x">>, <<"0">>, <<"0">>)),
   Str(HslOpen \o <<"x">> \o Close)}

ContrastOptions(foreground, fg, background, bg, type, json) ==
  [foreground |-> foreground, fg |-> fg, background |-> background,
   bg |-> bg, type |-> type, json |-> json]

ContrastInputs ==
  {ContrastOptions(f, Undef, b, Undef, ty, Undef) :
     f \in ColorArgs, b \in ColorArgs, ty \in {Undef, Str("non-text")}}
  \cup {ContrastOptions(Undef, f, b, Str(<<"#", "0", "0", "0">>), Undef, Undef) :
     f \in ColorArgs, b \in {Undef, Str(<<"#", "g", "g", "g">>)}}
  \cup {ContrastOptions(Str(<<"#", "0", "0", "0">>), Undef, Undef, Undef, Undef,
                        Json([foreground |-> f, background |-> b])) :
     f \in JsonColorArgs, b \in JsonColorArgs}
  \cup {ContrastOptions(Str(<<"#", "0", "0", "0">>), Undef,
                        Str(<<"#", "f", "f", "f">>), Undef, Undef, j) :
     j \in {BadJson, Bool(TRUE), Json(<<>>),
            Json([foreground |-> Str(<<"#", "0", "0", "0">>),
                  background |-> Str(<<"#", "f", "f", "f">>),
                  type |-> Str("non-text")])}}

\* values the variables of the other tools keep while one tool runs
Idle == <<>>

InitContrast ==
  /\ pc = "start"
  /\ options \in ContrastInputs
  /\ exitCode = -1
  /\ stdout = <<>>
  /\ stderr = <<>>
  /\ result = Idle
  /\ files = Idle /\ readme = Idle /\ agentsMd = Idle /\ skillsJson = Idle
  /\ runs = 0

\* one run of the contrast calculator's main()
ContrastMain ==
  /\ pc = "start"
  /\ \E r \in {contrast_main(options)} :
         /\ exitCode' = r.exitCode
         /\ stdout' = r.stdout
         /\ stderr' = r.stderr
  /\ pc' = "exit"
  /\ UNCHANGED <<options, result, files, readme, agentsMd, skillsJson, runs>>

NextContrast == ContrastMain

SpecContrast == InitContrast /\ [][NextContrast]_vars

-----------------------------------------------------------------------------
(* Colour strings as the specification describes them                      *)

IsHexDigit(c) == DigitVal(LowerChar(c), 16) >= 0

\* a decimal number: optional sign, digits, optional fraction
IsNumericText(s) ==
  LET t == trim(s)
      u == IF Len(t) > 0 /\ t[1] \in {"-", "+"} THEN Tail(t) ELSE t
  IN  /\ Len(u) > 0
      /\ \A i \in 1..Len(u) : DigitVal(u[i], 10) >= 0 \/ u[i] = "."
      /\ DigitVal(u[1], 10) >= 0
      /\ Cardinality({i \in 1..Len(u) : u[i] = "."}) <= 1

\* '#' with 3 or 6 hex digits
IsHexColorText(s) ==
  LET t == trim(s)
  IN  /\ Len(t) \in {4, 7}
      /\ t[1] = "#"
      /\ \A i \in 2..Len(t) : IsHexDigit(t[i])

\* rgb(r,g,b) with three numeric parts
IsRgbTripleText(s) ==
  LET t == toLowerCase(trim(s))
      parts == split(slice(t, 4, -1), ",")
  IN  /\ startsWith(t, RgbOpen) /\ endsWith(t, Close)
      /\ Len(parts) = 3
      /\ \A i \in 1..3 : IsNumericText(parts[i])

IsColorText(arg) ==
  arg.t = "string" /\ (IsHexColorText(arg.s) \/ IsRgbTripleText(arg.s))

PrintsRatio == \E i \in 1..Len(stdout) : stdout[i].kind \in {"ratio", "json"}

\* the colour arguments main() hands to parseColor
contrast_args(opts) ==
  LET o == IF Truthy(opts.json) /\ JSONparse(opts.json).ok
           THEN contrast_mergeJson(opts, JSONparse(opts.json).obj)
           ELSE opts
  IN  [fg |-> Or(o.foreground, o.fg), bg |-> Or(o.background, o.bg)]

\* C2: the contrast calculator exits non-zero and prints no ratio whenever
\* the foreground or the background is not a 3/6-digit hex colour or an
\* rgb(r,g,b) triple.
C2_BadColorExits ==
  (pc = "exit" /\ (~IsColorText(contrast_args(options).fg)
                   \/ ~IsColorText(contrast_args(options).bg)))
    => (exitCode # 0 /\ ~PrintsRatio)

-----------------------------------------------------------------------------
(* getContrastRatio and checkCompliance as functions of two Color records  *)

ChannelSamples == {0, 149, 239, 255}

ColorSamples ==
  {Color(Num(r), Num(g), Num(b)) :
     r \in ChannelSamples, g \in ChannelSamples, b \in ChannelSamples}

Black == Color(Num(0), Num(0), Num(0))
White == Color(Num(255), Num(255), Num(255))

InitRatio ==
  /\ pc = "start"
  /\ options \in [color1 : ColorSamples, color2 : ColorSamples,
                  type : {Str("text"), Str("non-text")}]
  /\ exitCode = -1
  /\ stdout = <<>>
  /\ stderr = <<>>
  /\ result = Idle
  /\ files = Idle /\ readme = Idle /\ agentsMd = Idle /\ skillsJson = Idle
  /\ runs = 0

\* the calculation of main(): the ratio of the pair, in both orders, and
\* the compliance derived from each
ApplyRatio ==
  /\ pc = "start"
  /\ result' =
       [ratio |-> getContrastRatio(options.color1, options.color2),
        reversed |-> getContrastRatio(options.color2, options.color1),
        compliance |->
          checkCompliance(getContrastRatio(options.color1, options.color2),
                          options.type),
        complianceReversed |->
          checkCompliance(getContrastRatio(options.color2, options.color1),
                          options.type)]
  /\ pc' = "exit"
  /\ UNCHANGED <<options, exitCode, stdout, stderr,
                 files, readme, agentsMd, skillsJson, runs>>

NextRatio == ApplyRatio

SpecRatio == InitRatio /\ [][NextRatio]_vars

\* ratio >= threshold on the unrounded ratio, the threshold in hundredths
AtLeast(ratio, hundredths) == 100 * ratio.num >= hundredths * ratio.den

\* C4: every tier passes exactly when the ratio itself is at or above the
\* tier's threshold (3.0, 4.5, 7.0); no ratio strictly below a threshold
\* passes.
C4_TiersMatchThresholds ==
  pc = "exit" =>
    IF options.type = Str("non-text")
    THEN /\ result.compliance.AA <=> AtLeast(result.ratio, 300)
         /\ result.compliance.AAA <=> AtLeast(result.ratio, 300)
    ELSE /\ result.compliance.AA.normal <=> AtLeast(result.ratio, 450)
         /\ result.compliance.AA.large <=> AtLeast(result.ratio, 300)
         /\ result.compliance.AAA.normal <=> AtLeast(result.ratio, 700)
         /\ result.compliance.AAA.large <=> AtLeast(result.ratio, 450)

\* C5: the contrast ratio and the compliance flags derived from it are the
\* same for (a, b) and (b, a).
C5_RatioSymmetric ==
  pc = "exit" =>
    /\ result.ratio = result.reversed
    /\ result.compliance = result.complianceReversed

\* a pair of different luminance has been measured in both orders
C5_Witness ==
  /\ pc = "exit"
  /\ getRelativeLuminance(options.color1) # getRelativeLuminance(options.color2)
  /\ result.ratio.num > result.ratio.den

\* C6: the ratio of a colour against itself is exactly 1; black against
\* white gives 21 and passes all four text tiers.
C6_IdentityAndExtremes ==
  pc = "exit" =>
    /\ options.color1 = options.color2 => result.ratio.num = result.ratio.den
    /\ ({options.color1, options.color2} = {Black, White}
          /\ options.type = Str("text"))
         => /\ result.ratio.num = 21 * result.ratio.den
            /\ result.compliance.AA.normal /\ result.compliance.AA.large
            /\ result.compliance.AAA.normal /\ result.compliance.AAA.large

\* black on white has been measured and gave 21
C6_Witness ==
  /\ pc = "exit"
  /\ options.type = Str("text")
  /\ options.color1 = Black /\ options.color2 = White
  /\ result.ratio.num = 21 * result.ratio.den

-----------------------------------------------------------------------------
(* Colour-blindness simulator, src/unnamed/part_001                        *)

\* matrix entries * 1000
TRANSFORMATION_MATRICES ==
  [protanopia |-> <<<<567, 433, 0>>, <<558, 442, 0>>, <<0, 242, 758>>>>,
   deuteranopia |-> <<<<625, 375, 0>>, <<700, 300, 0>>, <<0, 300, 700>>>>,
   tritanopia |-> <<<<950, 50, 0>>, <<0, 433, 567>>, <<0, 475, 525>>>>]

\* names every object literal inherits from Object.prototype
ObjectPrototypeNames ==
  {"constructor", "toString", "valueOf", "hasOwnProperty", "__proto__",
   "isPrototypeOf", "propertyIsEnumerable", "toLocaleString"}

\* TRANSFORMATION_MATRICES[type]: an own matrix, an inherited member
\* (truthy, without a row 0), or undefined
matrixOf(type) ==
  IF type.t = "string" /\ type.s \in DOMAIN TRANSFORMATION_MATRICES
  THEN [kind |-> "matrix", m |-> TRANSFORMATION_MATRICES[type.s]]
  ELSE IF type.t = "string" /\ type.s \in ObjectPrototypeNames
  THEN [kind |-> "inherited", m |-> <<>>]
  ELSE [kind |-> "undefined", m |-> <<>>]

sim_parseColor(arg) ==
  IF ~Truthy(arg) THEN NullColor
  ELSE IF arg.t # "string" THEN Thrown
  ELSE LET Rest(c) == IF c.kind # "none" THEN c ELSE NullColor
       IN  Rest(parseHexOrRgb(toLowerCase(trim(arg.s))))

\* a * b / 1000 without leaving 32 bits
MulDiv1000(a, b) == (a \div 1000) * b + ((a % 1000) * b) \div 1000

\* LMS values * 25500 (the channels stay 0..255 instead of 0..1, the
\* coefficients are taken * 100000 and the sum is cut by 1000)
rgbToLms(r, g, b) ==
  <<(1788240 * r + 4351610 * g + 411935 * b) \div 1000,
    (345565 * r + 2715540 * g + 386714 * b) \div 1000,
    (2996 * r + 18431 * g + 146709 * b) \div 1000>>

\* clamp to 0..1 (here 0..25500000) and Math.round(x * 255)
ClampRound(x) ==
  LET c == Max(0, Min(25500000, x))
  IN  (c + 50000) \div 100000

lmsToRgb(L, M, S) ==
  LET r == MulDiv1000(L, 80944) + MulDiv1000(M, -130504) + MulDiv1000(S, 116721)
      g == MulDiv1000(L, -10249) + MulDiv1000(M, 54019) + MulDiv1000(S, -113615)
      b == MulDiv1000(L, -365) + MulDiv1000(M, -4122) + MulDiv1000(S, 693511)
  IN  Color(Num(ClampRound(r)), Num(ClampRound(g)), Num(ClampRound(b)))

NaNColor == Color(NaN, NaN, NaN)

\* the result of simulateColorBlindness: a colour, or a thrown error
\* (unknown type: the explicit Error; inherited member: TypeError on
\* matrix[0][0])
simulateColorBlindness(color, type) ==
  LET Apply(m, lms) ==
        lmsToRgb((m[1][1] * lms[1] + m[1][2] * lms[2] + m[1][3] * lms[3]) \div 1000,
                 (m[2][1] * lms[1] + m[2][2] * lms[2] + m[2][3] * lms[3]) \div 1000,
                 (m[3][1] * lms[1] + m[3][2] * lms[2] + m[3][3] * lms[3]) \div 1000)
      Simulate(matrix) ==
        IF matrix.kind # "matrix" THEN Thrown
        ELSE IF color.r.nan \/ color.g.nan \/ color.b.nan THEN NaNColor
        ELSE Apply(matrix.m, rgbToLms(color.r.v, color.g.v, color.b.v))
  IN  Simulate(matrixOf(type))

UsageSimulate ==
  <<Line("usage", "simulate.js"), Line("usage", "Supported types"),
    Line("usage", "simulate.js --json")>>

sim_mergeJson(opts, obj) ==
  [opts EXCEPT !.color = Field(obj, "color"), !.type = Field(obj, "type")]

\* main() after the JSON blob has been merged into the options
sim_run(opts) ==
  LET type == opts.type
      Output(color, simulatedColor) ==
        IF simulatedColor.kind = "throw"
        THEN Exit(1, <<>>, <<Line("error", "Error")>>)
        ELSE IF Truthy(opts.json)
        THEN Exit(0, <<[kind |-> "json", original |-> color,
                        simulated |-> simulatedColor, type |-> type]>>, <<>>)
        ELSE Exit(0, <<Line("original", color), Line("simulated", simulatedColor),
                       Line("description", type)>>, <<>>)
      Checks(color) ==
        IF color.kind = "throw"
        THEN Exit(1, <<>>, <<Line("uncaught", "TypeError")>>)
        ELSE IF color.kind = "null" THEN Exit(1, <<>>, UsageSimulate)
        ELSE IF ~Truthy(type) \/ matrixOf(type).kind = "undefined"
        THEN Exit(1, <<>>, <<Line("error", "Invalid or missing color blindness type")>>)
        ELSE Output(color, simulateColorBlindness(color, type))
  IN  Checks(sim_parseColor(opts.color))

sim_main(opts) ==
  IF Truthy(opts.json) /\ ~JSONparse(opts.json).ok
  THEN Exit(1, <<>>, <<Line("error", "Invalid JSON input")>>)
  ELSE sim_run(IF Truthy(opts.json)
               THEN sim_mergeJson(opts, JSONparse(opts.json).obj)
               ELSE opts)

TypeArgs ==
  {Undef, Bool(TRUE), Str("protanopia"), Str("deuteranopia"),
   Str("tritanopia"), Str("constructor"), Str("toString"), Str("__proto__"),
   Str("achromatopsia")}

SimInputs ==
  {[color |-> c, type |-> ty, json |-> Undef] :
     c \in ColorArgs, ty \in TypeArgs}
  \cup {[color |-> Str(<<"#", "0", "0", "0">>), type |-> Str("protanopia"),
         json |-> Json([color |-> c, type |-> ty])] :
     c \in JsonColorArgs, ty \in TypeArgs \cup {Str("")}}
  \cup {[color |-> Str(<<"#", "0", "0", "0">>), type |-> Str("protanopia"),
         json |-> j] : j \in {BadJson, Bool(TRUE), Json(<<>>)}}

InitSim ==
  /\ pc = "start"
  /\ options \in SimInputs
  /\ exitCode = -1
  /\ stdout = <<>>
  /\ stderr = <<>>
  /\ result = Idle
  /\ files = Idle /\ readme = Idle /\ agentsMd = Idle /\ skillsJson = Idle
  /\ runs = 0

\* one run of the simulator's main()
SimMain ==
  /\ pc = "start"
  /\ \E r \in {sim_main(options)} :
         /\ exitCode' = r.exitCode
         /\ stdout' = r.stdout
         /\ stderr' = r.stderr
  /\ pc' = "exit"
  /\ UNCHANGED <<options, result, files, readme, agentsMd, skillsJson, runs>>

NextSim == SimMain

SpecSim == InitSim /\ [][NextSim]_vars

\* the colour and type main() works with
sim_args(opts) ==
  IF Truthy(opts.json) /\ JSONparse(opts.json).ok
  THEN sim_mergeJson(opts, JSONparse(opts.json).obj)
  ELSE opts

KnownType(type) ==
  type \in {Str("protanopia"), Str("deuteranopia"), Str("tritanopia")}

PrintsSimulated ==
  \E i \in 1..Len(stdout) : stdout[i].kind \in {"simulated", "json"}

\* C3: the simulator ends with a non-zero exit and prints no simulated
\* colour when the type is not protanopia, deuteranopia or tritanopia, or
\* when the colour string cannot be parsed as a colour.
C3_BadInputExits ==
  (pc = "exit" /\ (~KnownType(sim_args(options).type)
                   \/ ~IsColorText(sim_args(options).color)))
    => (exitCode # 0 /\ ~PrintsSimulated)

-----------------------------------------------------------------------------
(* parseColor and simulateColorBlindness as functions                      *)

SimTypes == {Str("protanopia"), Str("deuteranopia"), Str("tritanopia")}

InitColor ==
  /\ pc = "start"
  /\ options \in [text : ColorTexts, color : ColorSamples, type : SimTypes]
  /\ exitCode = -1
  /\ stdout = <<>>
  /\ stderr = <<>>
  /\ result = Idle
  /\ files = Idle /\ readme = Idle /\ agentsMd = Idle /\ skillsJson = Idle
  /\ runs = 0

\* parse the text with both tools' parseColor and simulate the sample colour
ApplyColor ==
  /\ pc = "start"
  /\ result' = [contrast |-> parseColor(Str(options.text)),
                sim |-> sim_parseColor(Str(options.text)),
                simulated |-> simulateColorBlindness(options.color, options.type)]
  /\ pc' = "exit"
  /\ UNCHANGED <<options, exitCode, stdout, stderr,
                 files, readme, agentsMd, skillsJson, runs>>

NextColor == ApplyColor

SpecColor == InitColor /\ [][NextColor]_vars

IsChannel(x) == x.t = "number" /\ ~x.nan /\ x.v \in 0..255

IsColorRecord(c) == IsChannel(c.r) /\ IsChannel(c.g) /\ IsChannel(c.b)

\* C7: every Color record the tools construct has three integer channels
\* within 0..255: every colour parseColor returns (both tools) and every
\* colour simulateColorBlindness returns for a valid colour and known type.
C7_ChannelsInRange ==
  pc = "exit" =>
    /\ result.contrast.kind = "color" => IsColorRecord(result.contrast)
    /\ result.sim.kind = "color" => IsColorRecord(result.sim)
    /\ IsColorRecord(options.color) =>
         (result.simulated.kind = "color" /\ IsColorRecord(result.simulated))

-----------------------------------------------------------------------------
(* Number conversions of JavaScript values                                 *)

includes(s, c) == \E i \in 1..Len(s) : s[i] = c

\* ToNumber: the whole trimmed text must be an integer literal, "" is 0
toNumber(x) ==
  CASE x.t = "number" -> x
    [] x.t = "boolean" -> Num(IF x.b THEN 1 ELSE 0)
    [] x.t = "null" -> Num(0)
    [] x.t = "string" ->
         LET Literal(t, u) ==
               IF Len(t) = 0 THEN Num(0)
               ELSE IF Len(u) > 0 /\ \A i \in 1..Len(u) : DigitVal(u[i], 10) >= 0
               THEN parseInt(t, 10)
               ELSE NaN
             Unsigned(t) ==
               Literal(t, IF Len(t) > 0 /\ t[1] \in {"-", "+"} THEN Tail(t) ELSE t)
         IN  Unsigned(trim(x.s))
    [] OTHER -> NaN

\* the global isNaN(x)
isNaN(x) == toNumber(x).nan

\* parseInt(x) of any value: the argument is converted to a string first
parseIntOf(x) ==
  CASE x.t = "string" -> parseInt(x.s, 0)
    [] x.t = "number" -> x
    [] OTHER -> NaN

\* a >= n and a < n for a value a and an integer n; false when a is NaN
GreaterEq(a, n) ==
  LET Compare(x) == ~x.nan /\ x.v >= n IN Compare(toNumber(a))
Less(a, n) ==
  LET Compare(x) == ~x.nan /\ x.v < n IN Compare(toNumber(a))

\* String(n) for an integer
RECURSIVE natText(_)
natText(n) ==
  IF n < 10 THEN <<Digits[n + 1]>>
  ELSE natText(n \div 10) \o <<Digits[(n % 10) + 1]>>

intText(n) == IF n < 0 THEN <<"-">> \o natText(-n) ELSE natText(n)

-----------------------------------------------------------------------------
(* Touch target size checker, src/unnamed/part_000                         *)

WCAG_MINIMUM_SIZE == 44
RECOMMENDED_SPACING == 8

UsageTouch ==
  <<Line("usage", "check.js --width"), Line("usage", "check.js --dimensions"),
    Line("usage", "check.js --json")>>

\* width and height after the flag and "44x44" blocks of parseDimensions
touch_flagDimensions(opts) ==
  LET Parts(parts) ==
        [width |-> parseInt(parts[1], 0), height |-> parseInt(parts[2], 0)]
  IN  IF Truthy(opts.dimensions) /\ includes(opts.dimensions.s, "x")
      THEN Parts(split(opts.dimensions.s, "x"))
      ELSE [width |-> IF Truthy(opts.width) THEN parseIntOf(opts.width) ELSE Null,
            height |-> IF Truthy(opts.height) THEN parseIntOf(opts.height) ELSE Null]

\* parseDimensions: [ok |-> FALSE] stands for process.exit(1)
parseDimensions(opts) ==
  LET useJson == Truthy(opts.json)
      Result(width, height, spacingOpt, elementOpt) ==
        IF ~Truthy(width) \/ ~Truthy(height) \/ isNaN(width) \/ isNaN(height)
        THEN [ok |-> FALSE, err |-> UsageTouch]
        ELSE [ok |-> TRUE, err |-> <<>>,
              width |-> width,
              height |-> height,
              spacing |-> IF Truthy(spacingOpt) THEN parseIntOf(spacingOpt) ELSE Null,
              element |-> Or(elementOpt, Str("interactive element"))]
      Merge(flags, jsonInput) ==
        IF useJson
        THEN Result(Or(Field(jsonInput, "width"), flags.width),
                    Or(Field(jsonInput, "height"), flags.height),
                    Or(Field(jsonInput, "spacing"), opts.spacing),
                    Or(Field(jsonInput, "element"), opts.element))
        ELSE Result(flags.width, flags.height, opts.spacing, opts.element)
  IN  IF Truthy(opts.dimensions) /\ opts.dimensions.t # "string"
      THEN [ok |-> FALSE, err |-> <<Line("uncaught", "TypeError")>>]
      ELSE IF useJson /\ ~JSONparse(opts.json).ok
      THEN [ok |-> FALSE, err |-> <<Line("error", "Invalid JSON input")>>]
      ELSE Merge(touch_flagDimensions(opts), JSONparse(opts.json).obj)

\* "greater than" in place of "at least"
checkSize_strict(width, height) ==
  [compliant |-> GreaterEq(width, WCAG_MINIMUM_SIZE + 1)
                 /\ GreaterEq(height, WCAG_MINIMUM_SIZE + 1),
   minimumWidth |-> WCAG_MINIMUM_SIZE,
   minimumHeight |-> WCAG_MINIMUM_SIZE,
   actualWidth |-> width,
   actualHeight |-> height]

checkSize(width, height) ==
  [compliant |-> GreaterEq(width, WCAG_MINIMUM_SIZE)
                 /\ GreaterEq(height, WCAG_MINIMUM_SIZE),
   minimumWidth |-> WCAG_MINIMUM_SIZE,
   minimumHeight |-> WCAG_MINIMUM_SIZE,
   actualWidth |-> width,
   actualHeight |-> height]

checkSpacing(spacing) ==
  IF spacing.t = "null"
  THEN [compliant |-> Null, recommended |-> RECOMMENDED_SPACING, actual |-> Null]
  ELSE [compliant |-> Bool(GreaterEq(spacing, RECOMMENDED_SPACING)),
        recommended |-> RECOMMENDED_SPACING, actual |-> spacing]

\* the height message only when the width is not already reported
generateRecommendations_firstOnly(sizeCheck, spacingCheck) ==
  (IF ~sizeCheck.compliant /\ Less(sizeCheck.actualWidth, WCAG_MINIMUM_SIZE)
   THEN <<Line("Increase width", sizeCheck.actualWidth)>>
   ELSE IF ~sizeCheck.compliant /\ Less(sizeCheck.actualHeight, WCAG_MINIMUM_SIZE)
   THEN <<Line("Increase height", sizeCheck.actualHeight)>> ELSE <<>>)
  \o (IF spacingCheck.compliant = Bool(FALSE)
      THEN <<Line("Ensure spacing", spacingCheck.actual)>>
      ELSE IF spacingCheck.compliant.t = "null"
      THEN <<Line("Consider spacing", Null)>>
      ELSE <<>>)

generateRecommendations(sizeCheck, spacingCheck) ==
  (IF ~sizeCheck.compliant /\ Less(sizeCheck.actualWidth, WCAG_MINIMUM_SIZE)
   THEN <<Line("Increase width", sizeCheck.actualWidth)>> ELSE <<>>)
  \o (IF ~sizeCheck.compliant /\ Less(sizeCheck.actualHeight, WCAG_MINIMUM_SIZE)
      THEN <<Line("Increase height", sizeCheck.actualHeight)>> ELSE <<>>)
  \o (IF spacingCheck.compliant = Bool(FALSE)
      THEN <<Line("Ensure spacing", spacingCheck.actual)>>
      ELSE IF spacingCheck.compliant.t = "null"
      THEN <<Line("Consider spacing", Null)>>
      ELSE <<>>)

touch_formatResult(sizeCheck, spacingCheck, recommendations, element) ==
  [kind |-> "json",
   element |-> element,
   dimensions |-> [width |-> sizeCheck.actualWidth,
                   height |-> sizeCheck.actualHeight],
   compliance |-> [size |-> sizeCheck.compliant,
                   spacing |-> spacingCheck.compliant],
   recommendations |-> recommendations]

\* the locals of main() and what it prints
touch_main(opts) ==
  LET Output(d, sizeCheck, spacingCheck, recommendations) ==
        [exit |->
           IF Truthy(opts.json)
           THEN Exit(0, <<touch_formatResult(sizeCheck, spacingCheck,
                                             recommendations, d.element)>>, <<>>)
           ELSE Exit(0,
                     <<Line("Checking target size for", d.element),
                       Line("Dimensions", <<d.width, d.height>>),
                       Line("Size", sizeCheck.compliant),
                       Line("Spacing", spacingCheck.compliant)>>
                     \o (IF Len(recommendations) > 0
                         THEN <<Line("Recommendations", Len(recommendations))>>
                              \o recommendations
                         ELSE <<Line("No issues found", 0)>>),
                     <<>>),
         locals |->
           [width |-> d.width, height |-> d.height, spacing |-> d.spacing,
            sizeCheck |-> sizeCheck, spacingCheck |-> spacingCheck,
            recommendations |-> recommendations]]
      Checks(d, sizeCheck, spacingCheck) ==
        Output(d, sizeCheck, spacingCheck,
               generateRecommendations(sizeCheck, spacingCheck))
      Run(d) ==
        IF ~d.ok THEN [exit |-> Exit(1, <<>>, d.err), locals |-> Idle]
        ELSE Checks(d, checkSize(d.width, d.height), checkSpacing(d.spacing))
  IN  Run(parseDimensions(opts))

SizeSpread == 2
SpacingSpread == 1

DimFlagArgs ==
  {Str(intText(n)) :
     n \in (WCAG_MINIMUM_SIZE - SizeSpread)..(WCAG_MINIMUM_SIZE + SizeSpread)}
  \cup {Undef, Bool(TRUE), Str(<<"0">>), Str(<<"a", "b", "c">>),
        Str(<<"-", "4", "4">>), Str(<<"4", "4", "p", "x">>)}

SpacingFlagArgs ==
  {Str(intText(n)) :
     n \in (RECOMMENDED_SPACING - SpacingSpread)..(RECOMMENDED_SPACING + SpacingSpread)}
  \cup {Undef, Bool(TRUE), Str(<<"0">>), Str(<<"a", "b", "c">>)}

DimensionsArgs ==
  {Bool(TRUE), Str(<<"4", "4", "x", "4", "4">>), Str(<<"4", "8", "x">>),
   Str(<<"4", "0", "x", "5", "0", "x", "6", "0">>), Str(<<"4", "4", "4", "4">>)}

JsonDimValues ==
  {Undef, Num(0), Num(WCAG_MINIMUM_SIZE - 1), Num(WCAG_MINIMUM_SIZE),
   Str(<<"4", "8">>)}

JsonSpacingValues ==
  {Undef, Num(0), Num(RECOMMENDED_SPACING - 1), Num(RECOMMENDED_SPACING)}

\* a blob with the fields that are given (an absent field is left out)
Blob(fields) == [k \in {f \in DOMAIN fields : fields[f] # Undef} |-> fields[k]]

TouchOptions(width, height, dimensions, spacing, json) ==
  [width |-> width, height |-> height, dimensions |-> dimensions,
   spacing |-> spacing, element |-> Undef, json |-> json]

TouchInputs ==
  {TouchOptions(w, h, Undef, sp, Undef) :
     w \in DimFlagArgs, h \in DimFlagArgs, sp \in SpacingFlagArgs}
  \cup {TouchOptions(Str(<<"4", "8">>), Undef, d, sp, Undef) :
     d \in DimensionsArgs, sp \in {Undef, Str(<<"8">>)}}
  \cup {TouchOptions(w, Str(<<"4", "8">>), Undef, sp,
                     Json(Blob([width |-> jw, height |-> jh, spacing |-> jsp]))) :
     w \in {Undef, Str(<<"4", "8">>)}, sp \in {Undef, Str(<<"1", "0">>)},
     jw \in JsonDimValues, jh \in JsonDimValues, jsp \in JsonSpacingValues}
  \cup {TouchOptions(Str(<<"4", "8">>), Str(<<"4", "8">>), Undef, Undef, j) :
     j \in {BadJson, Bool(TRUE)}}

InitTouch ==
  /\ pc = "start"
  /\ options \in TouchInputs
  /\ exitCode = -1
  /\ stdout = <<>>
  /\ stderr = <<>>
  /\ result = Idle
  /\ files = Idle /\ readme = Idle /\ agentsMd = Idle /\ skillsJson = Idle
  /\ runs = 0

\* one run of the touch target checker's main()
TouchMain ==
  /\ pc = "start"
  /\ \E r \in {touch_main(options)} :
         /\ exitCode' = r.exit.exitCode
         /\ stdout' = r.exit.stdout
         /\ stderr' = r.exit.stderr
         /\ result' = r.locals
  /\ pc' = "exit"
  /\ UNCHANGED <<options, files, readme, agentsMd, skillsJson, runs>>

NextTouch == TouchMain

SpecTouch == InitTouch /\ [][NextTouch]_vars

\* the size and spacing compliance the tool reports
ReportedSize ==
  IF stdout[1].kind = "json" THEN stdout[1].compliance.size
  ELSE stdout[3].value

ReportedSpacing ==
  IF stdout[1].kind = "json" THEN stdout[1].compliance.spacing
  ELSE stdout[4].value

\* C9: size compliance is true if and only if width >= 44 and height >= 44,
\* for every accepted width/height pair.
C9_SizeIffBothAtLeast44 ==
  (pc = "exit" /\ exitCode = 0) =>
    (ReportedSize <=> (toNumber(result.width).v >= 44
                       /\ toNumber(result.height).v >= 44))

\* a pair exactly at the minimum was accepted and reported compliant, and
\* the pair is what the command line gave
C9_Witness ==
  /\ pc = "exit" /\ exitCode = 0
  /\ options.width = Str(<<"4", "4">>) /\ options.height = Str(<<"4", "4">>)
  /\ result.width = Num(44) /\ result.height = Num(44)
  /\ ReportedSize

\* the spacing values the invocation supplies: the --spacing flag when it
\* is an integer text, the blob's spacing field when it is a number
SuppliedSpacing ==
  (IF options.spacing.t = "string" /\ ~toNumber(options.spacing).nan
   THEN {toNumber(options.spacing).v} ELSE {})
  \cup (IF Truthy(options.json) /\ JSONparse(options.json).ok
           /\ Field(JSONparse(options.json).obj, "spacing").t = "number"
        THEN {Field(JSONparse(options.json).obj, "spacing").v} ELSE {})

SpacingMentioned ==
  \/ options.spacing # Undef
  \/ /\ Truthy(options.json) /\ JSONparse(options.json).ok
     /\ Field(JSONparse(options.json).obj, "spacing") # Undef

\* C10: spacing compliance is null exactly when no spacing was supplied;
\* whenever a value is supplied (flag or blob, 0 included) it is the
\* boolean spacing >= 8.
C10_SpacingTriState ==
  (pc = "exit" /\ exitCode = 0) =>
    /\ ~SpacingMentioned => ReportedSpacing = Null
    /\ SuppliedSpacing # {} =>
         \E v \in SuppliedSpacing : ReportedSpacing = Bool(v >= 8)

\* the remediation messages of one kind in the recommendations of main()
MessagesOf(kind) ==
  SelectSeq(result.recommendations, LAMBDA rec : rec.kind = kind)

\* C11: the recommendations hold a width message iff width < 44 and a
\* height message iff height < 44, one each, so the number of size messages
\* is the number of dimensions below 44.
C11_MessagePerFailingDimension ==
  (pc = "exit" /\ exitCode = 0) =>
    /\ Len(MessagesOf("Increase width"))
         = (IF toNumber(result.width).v < 44 THEN 1 ELSE 0)
    /\ Len(MessagesOf("Increase height"))
         = (IF toNumber(result.height).v < 44 THEN 1 ELSE 0)
    /\ \A i \in 1..Len(result.recommendations) :
         \E j \in 1..Len(stdout) :
           stdout[j] = result.recommendations[i]
           \/ (stdout[j].kind = "json"
               /\ stdout[j].recommendations = result.recommendations)

\* both dimensions are below the minimum: size FAIL with a width and a
\* height message
C11_Witness ==
  /\ pc = "exit" /\ exitCode = 0
  /\ result.width = Num(42) /\ result.height = Num(43)
  /\ ~ReportedSize
  /\ Len(MessagesOf("Increase width")) = 1
  /\ Len(MessagesOf("Increase height")) = 1

-----------------------------------------------------------------------------
(* Motion tester, the second script of                                     *)
(* src/skills/wcag-audit-perceivable-text-size/scripts/convert.js          *)
(* Durations are held in tenths of a second.                               *)

MAX_AUTO_DURATION == 5
MAX_FLASHES_PER_SECOND == 3
Tenths == 10

\* parseFloat(string), in tenths: optional sign, digits, optional fraction
\* of which the first digit counts; NaN when no digit starts the number
parseFloat(str) ==
  LET Value(sign, ip, fp) ==
        IF Len(ip) = 0 /\ Len(fp) = 0 THEN NaN
        ELSE Num(sign * (digitsValue(ip, 10, 0) * Tenths
                         + (IF Len(fp) > 0 THEN DigitVal(fp[1], 10) ELSE 0)))
      Fraction(sign, ip, rest) ==
        Value(sign, ip,
              IF Len(rest) > 0 /\ Head(rest) = "."
              THEN digitPrefix(Tail(rest), 10) ELSE <<>>)
      Whole(sign, s1, ip) ==
        Fraction(sign, ip, SubSeq(s1, Len(ip) + 1, Len(s1)))
      Unsigned(sign, s1) == Whole(sign, s1, digitPrefix(s1, 10))
      Signed(s0) ==
        IF Len(s0) > 0 /\ Head(s0) \in {"-", "+"}
        THEN Unsigned(IF Head(s0) = "-" THEN -1 ELSE 1, Tail(s0))
        ELSE Unsigned(1, s0)
  IN  Signed(trimStart(str))

\* parseFloat of a flag value: a string, or true for a flag without value
parseFloatOf(x) == IF x.t = "string" THEN parseFloat(x.s) ELSE NaN

\* s.includes(sub) for strings
contains(s, sub) ==
  \E i \in 0..(Len(s) - Len(sub)) : SubSeq(s, i + 1, i + Len(sub)) = sub

W_true == <<"t", "r", "u", "e">>
W_false == <<"f", "a", "l", "s", "e">>
W_unknown == <<"u", "n", "k", "n", "o", "w", "n">>
W_carousel == <<"c", "a", "r", "o", "u", "s", "e", "l">>
W_slideshow == <<"s", "l", "i", "d", "e", "s", "h", "o", "w">>
W_auto_advance == <<"a", "u", "t", "o", "-", "a", "d", "v", "a", "n", "c", "e">>
W_ticker == <<"t", "i", "c", "k", "e", "r">>
W_marquee == <<"m", "a", "r", "q", "u", "e", "e">>
W_parallax == <<"p", "a", "r", "a", "l", "l", "a", "x">>
W_scroll_triggered ==
  <<"s", "c", "r", "o", "l", "l", "-", "t", "r", "i", "g", "g", "e", "r", "e", "d">>
W_3d_transform ==
  <<"3", "d", "-", "t", "r", "a", "n", "s", "f", "o", "r", "m">>
W_fade == <<"f", "a", "d", "e">>

autoTypes == {W_carousel, W_slideshow, W_auto_advance, W_ticker, W_marquee}
highRiskTypes == {W_parallax, W_scroll_triggered, W_3d_transform}

\* parseInput of the motion tester: [ok |-> FALSE] stands for the process
\* ending inside it (Invalid JSON, or TypeError on a type flag without value)
motion_parseInput(opts) ==
  LET duration == IF Truthy(opts.duration) THEN parseFloatOf(opts.duration)
                  ELSE Num(0)
      type == IF Truthy(opts.type) THEN Str(toLowerCase(opts.type.s))
              ELSE Str(W_unknown)
      flashes == IF Truthy(opts.flashes) THEN parseIntOf(opts.flashes)
                 ELSE Num(0)
      reducedMotion ==
        IF Truthy(Or(opts.reducedMotion, opts.reduced_motion))
        THEN Bool(opts.reducedMotion = Str(W_true)
                  \/ opts.reduced_motion = Str(W_true))
        ELSE Bool(FALSE)
      parsed == JSONparse(opts.json)
      obj == parsed.obj
  IN  IF Truthy(opts.type) /\ opts.type.t # "string"
      THEN [ok |-> FALSE, err |-> <<Line("uncaught", "TypeError")>>]
      ELSE IF ~Truthy(opts.json)
      THEN [ok |-> TRUE, err |-> <<>>, duration |-> duration, type |-> type,
            flashes |-> flashes, reducedMotion |-> reducedMotion]
      ELSE IF ~parsed.ok
      THEN [ok |-> FALSE, err |-> <<Line("error", "Invalid JSON input")>>]
      ELSE [ok |-> TRUE, err |-> <<>>,
            duration |-> Or(Field(obj, "duration"), duration),
            type |-> Or(Field(obj, "type"), type),
            flashes |-> Or(Field(obj, "flashes"), flashes),
            reducedMotion |->
              Or(Field(obj, "userPrefersReducedMotion"),
                 Or(Field(obj, "reducedMotion"), reducedMotion))]

\* a > n for a number a and an integer n; false when a is NaN
\* (Greater_orEqual: "at least" in place of "more than")
Greater_orEqual(a, n) ==
  LET Compare(x) == ~x.nan /\ x.v >= n IN Compare(toNumber(a))

Greater(a, n) ==
  LET Compare(x) == ~x.nan /\ x.v > n IN Compare(toNumber(a))
LessEq(a, n) ==
  LET Compare(x) == ~x.nan /\ x.v <= n IN Compare(toNumber(a))

IsAutoType(type) == \E t \in autoTypes : contains(type.s, t)
IsHighRiskType(type) == \E t \in highRiskTypes : contains(type.s, t)

\* the auto-playing branch taken for every category
testReducedMotion_anyType(duration, type, reducedMotion) ==
  LET Verdict(issues, recommendations) ==
        [compliant |-> Len(issues) = 0, issues |-> issues,
         recommendations |-> recommendations]
      Collect(autoLong) ==
        Verdict((IF Truthy(reducedMotion)
                 THEN <<"User prefers reduced motion">> ELSE <<>>)
                \o (IF autoLong
                    THEN <<"Auto-playing duration exceeds limit">> ELSE <<>>),
                (IF Truthy(reducedMotion)
                 THEN <<"Disable or significantly reduce animation">> ELSE <<>>)
                \o (IF autoLong
                    THEN <<"Provide pause/stop controls or reduce duration">>
                    ELSE <<>>)
                \o (IF IsHighRiskType(type)
                    THEN <<"Consider providing option to disable or reduce motion intensity">>
                    ELSE <<>>))
  IN  Collect(Greater(duration, MAX_AUTO_DURATION * Tenths))

testReducedMotion(duration, type, reducedMotion) ==
  LET Verdict(issues, recommendations) ==
        [compliant |-> Len(issues) = 0, issues |-> issues,
         recommendations |-> recommendations]
      Collect(autoLong) ==
        Verdict((IF Truthy(reducedMotion)
                 THEN <<"User prefers reduced motion">> ELSE <<>>)
                \o (IF autoLong
                    THEN <<"Auto-playing duration exceeds limit">> ELSE <<>>),
                (IF Truthy(reducedMotion)
                 THEN <<"Disable or significantly reduce animation">> ELSE <<>>)
                \o (IF autoLong
                    THEN <<"Provide pause/stop controls or reduce duration">>
                    ELSE <<>>)
                \o (IF IsHighRiskType(type)
                    THEN <<"Consider providing option to disable or reduce motion intensity">>
                    ELSE <<>>))
  IN  Collect(Greater(duration, MAX_AUTO_DURATION * Tenths) /\ IsAutoType(type))

\* "fewer than" in place of "at most" MAX_FLASHES_PER_SECOND
testFlashing_below(flashes) ==
  LET Verdict(compliant) ==
        [compliant |-> compliant,
         issues |-> IF ~compliant THEN <<"Flashing frequency exceeds limit">>
                    ELSE <<>>,
         recommendations |->
           IF ~compliant
           THEN <<"Reduce flashing to maximum 3 flashes per second",
                  "Consider non-flashing alternatives for important information",
                  "Test with users sensitive to flashing content">>
           ELSE <<>>]
  IN  Verdict(Less(flashes, MAX_FLASHES_PER_SECOND))

testFlashing(flashes) ==
  LET Verdict(compliant) ==
        [compliant |-> compliant,
         issues |-> IF ~compliant THEN <<"Flashing frequency exceeds limit">>
                    ELSE <<>>,
         recommendations |->
           IF ~compliant
           THEN <<"Reduce flashing to maximum 3 flashes per second",
                  "Consider non-flashing alternatives for important information",
                  "Test with users sensitive to flashing content">>
           ELSE <<>>]
  IN  Verdict(LessEq(flashes, MAX_FLASHES_PER_SECOND))

\* the limit applied to the auto-advancing categories only
testDuration_autoOnly(duration, type) ==
  LET Verdict(compliant) ==
        [compliant |-> compliant,
         issues |-> IF ~compliant
                    THEN <<"Animation duration exceeds recommended limit">>
                    ELSE <<>>,
         recommendations |->
           IF ~compliant
           THEN <<"Consider shorter duration or provide user controls",
                  "Break long animations into smaller segments with pauses">>
           ELSE <<>>]
  IN  Verdict(LessEq(duration, MAX_AUTO_DURATION * Tenths) \/ ~IsAutoType(type))

testDuration(duration, type) ==
  LET Verdict(compliant) ==
        [compliant |-> compliant,
         issues |-> IF ~compliant
                    THEN <<"Animation duration exceeds recommended limit">>
                    ELSE <<>>,
         recommendations |->
           IF ~compliant
           THEN <<"Consider shorter duration or provide user controls",
                  "Break long animations into smaller segments with pauses">>
           ELSE <<>>]
  IN  Verdict(LessEq(duration, MAX_AUTO_DURATION * Tenths))

\* [...new Set(list)]: the first occurrence of every element, in order
RECURSIVE unique(_)
unique(list) ==
  IF Len(list) = 0 THEN <<>>
  ELSE LET init == unique(SubSeq(list, 1, Len(list) - 1))
           last == list[Len(list)]
       IN  IF \E i \in 1..Len(init) : init[i] = last THEN init
           ELSE Append(init, last)

\* compliance.reducedMotion taken from the test alone, without the
\* "!reducedMotion ||" in front of it
assessAnimation_testOnly(duration, type, flashes, reducedMotion) ==
  LET Assess(reducedMotionTest, flashingTest, durationTest) ==
        [compliance |->
           [reducedMotion |-> reducedMotionTest.compliant,
            flashing |-> flashingTest.compliant,
            duration |-> durationTest.compliant],
         issues |-> reducedMotionTest.issues \o flashingTest.issues
                    \o durationTest.issues,
         recommendations |->
           unique(reducedMotionTest.recommendations
                  \o flashingTest.recommendations
                  \o durationTest.recommendations)]
  IN  Assess(testReducedMotion(duration, type, reducedMotion),
             testFlashing(flashes), testDuration(duration, type))

assessAnimation(duration, type, flashes, reducedMotion) ==
  LET Assess(reducedMotionTest, flashingTest, durationTest) ==
        [compliance |->
           [reducedMotion |-> ~Truthy(reducedMotion) \/ reducedMotionTest.compliant,
            flashing |-> flashingTest.compliant,
            duration |-> durationTest.compliant],
         issues |-> reducedMotionTest.issues \o flashingTest.issues
                    \o durationTest.issues,
         recommendations |->
           unique(reducedMotionTest.recommendations
                  \o flashingTest.recommendations
                  \o durationTest.recommendations)]
  IN  Assess(testReducedMotion(duration, type, reducedMotion),
             testFlashing(flashes), testDuration(duration, type))

UsageMotion == <<Line("usage", "test.js --duration"), Line("usage", "test.js --json")>>

motion_main(opts) ==
  LET Output(p, assessment) ==
        [exit |->
           IF Truthy(opts.json)
           THEN Exit(0, <<[kind |-> "json",
                           animation |-> [duration |-> p.duration,
                                          type |-> p.type,
                                          flashes |-> p.flashes],
                           compliance |-> assessment.compliance,
                           issues |-> assessment.issues,
                           recommendations |-> assessment.recommendations]>>,
                     <<>>)
           ELSE Exit(0,
                     <<Line("Testing", <<p.type, p.duration, p.flashes>>),
                       Line("Reduced motion", ~Truthy(p.reducedMotion)),
                       Line("Flashing", assessment.compliance.flashing),
                       Line("Duration", assessment.compliance.duration)>>
                     \o [i \in 1..Len(assessment.issues) |->
                           Line("issue", assessment.issues[i])]
                     \o [i \in 1..Len(assessment.recommendations) |->
                           Line("recommendation", assessment.recommendations[i])]
                     \o (IF /\ assessment.compliance.reducedMotion
                            /\ assessment.compliance.flashing
                            /\ assessment.compliance.duration
                            /\ Len(assessment.issues) = 0
                         THEN <<Line("Animation meets accessibility requirements", 0)>>
                         ELSE <<>>),
                     <<>>),
         locals |->
           [duration |-> p.duration, type |-> p.type, flashes |-> p.flashes,
            reducedMotion |-> p.reducedMotion, assessment |-> assessment]]
      Run(p) ==
        IF ~p.ok THEN [exit |-> Exit(1, <<>>, p.err), locals |-> Idle]
        ELSE IF p.duration = Num(0) /\ ~Truthy(opts.json)
        THEN [exit |-> Exit(1, <<>>, UsageMotion), locals |-> Idle]
        ELSE IF p.type.t # "string"
        THEN [exit |-> Exit(1, <<>>, <<Line("uncaught", "TypeError")>>),
              locals |-> Idle]
        ELSE Output(p, assessAnimation(p.duration, p.type, p.flashes,
                                       p.reducedMotion))
  IN  Run(motion_parseInput(opts))

FlashSpread == 1

DurationFlagArgs ==
  {Undef, Bool(TRUE), Str(<<"0">>), Str(<<"3", ".", "5">>), Str(<<"5">>),
   Str(<<"5", ".", "1">>), Str(<<"6">>), Str(<<"a", "b", "c">>)}

TypeFlagArgs ==
  {Undef, Bool(TRUE), Str(W_carousel), Str(W_fade), Str(W_parallax),
   Str(<<"N", "e", "w", "s", "-">> \o W_ticker),
   Str(<<"I", "m", "a", "g", "e", "-", "C", "a", "r", "o", "u", "s", "e", "l">>)}

FlashFlagArgs ==
  {Str(intText(n)) :
     n \in (MAX_FLASHES_PER_SECOND - FlashSpread)..(MAX_FLASHES_PER_SECOND + FlashSpread)}
  \cup {Undef, Str(<<"0">>), Str(<<"a", "b", "c">>)}

ReducedFlagArgs == {Undef, Bool(TRUE), Str(W_true), Str(W_false)}

\* blob values; durations in tenths of a second
JsonDurations == {Undef, Num(0), Num(35), Num(60)}
JsonTypes == {Undef, Str(W_carousel), Str(W_fade), Num(7)}
JsonFlashes == {Undef, Num(0), Num(MAX_FLASHES_PER_SECOND + 1)}
JsonReduced == {Undef, Bool(FALSE), Bool(TRUE)}

MotionOptions(duration, type, flashes, reducedMotion, reduced_motion, json) ==
  [duration |-> duration, type |-> type, flashes |-> flashes,
   reducedMotion |-> reducedMotion, reduced_motion |-> reduced_motion,
   json |-> json]

MotionInputs ==
  {MotionOptions(d, ty, f, Undef, rm, Undef) :
     d \in DurationFlagArgs, ty \in TypeFlagArgs, f \in FlashFlagArgs,
     rm \in ReducedFlagArgs}
  \cup {MotionOptions(Str(<<"6">>), Undef, Undef, rm, Undef, Undef) :
     rm \in ReducedFlagArgs}
  \cup {MotionOptions(d, Str(W_marquee), f, Undef, rm,
                      Json(Blob([duration |-> jd, type |-> jt, flashes |-> jf,
                                 reducedMotion |-> jr]))) :
     d \in {Undef, Str(<<"6">>)}, f \in {Undef, Str(<<"5">>)},
     rm \in {Undef, Str(W_true)},
     jd \in JsonDurations, jt \in JsonTypes, jf \in JsonFlashes,
     jr \in JsonReduced}
  \cup {MotionOptions(Str(<<"6">>), Undef, Undef, Undef, Undef, j) :
     j \in {BadJson, Bool(TRUE),
            Json([userPrefersReducedMotion |-> Bool(TRUE),
                  reducedMotion |-> Bool(FALSE)])}}

InitMotion ==
  /\ pc = "start"
  /\ options \in MotionInputs
  /\ exitCode = -1
  /\ stdout = <<>>
  /\ stderr = <<>>
  /\ result = Idle
  /\ files = Idle /\ readme = Idle /\ agentsMd = Idle /\ skillsJson = Idle
  /\ runs = 0

\* one run of the motion tester's main()
MotionMain ==
  /\ pc = "start"
  /\ \E r \in {motion_main(options)} :
         /\ exitCode' = r.exit.exitCode
         /\ stdout' = r.exit.stdout
         /\ stderr' = r.exit.stderr
         /\ result' = r.locals
  /\ pc' = "exit"
  /\ UNCHANGED <<options, files, readme, agentsMd, skillsJson, runs>>

NextMotion == MotionMain

SpecMotion == InitMotion /\ [][NextMotion]_vars

\* C8: when a --json blob is present, every field it supplies is the value
\* the calculation uses, also when the value is falsy and a conflicting
\* flag was given.
C8_JsonOverridesFlags ==
  (pc = "exit" /\ exitCode = 0 /\ options.json.t = "json") =>
    LET obj == options.json.obj
    IN  /\ \A k \in {"duration", "type", "flashes"} :
             k \in DOMAIN obj => result[k] = obj[k]
        /\ ("reducedMotion" \in DOMAIN obj
              /\ "userPrefersReducedMotion" \notin DOMAIN obj)
             => result.reducedMotion = obj.reducedMotion

\* the assessment holds the issue text
HasIssue(text) ==
  \E i \in 1..Len(result.assessment.issues) : result.assessment.issues[i] = text

\* C12: for every duration, category and reduced-motion preference, a
\* flash rate above 3 gives compliance.flashing = false and a flashing
\* issue, a flash rate of at most 3 gives compliance.flashing = true and
\* no flashing issue.
C12_FlashingAboveThree ==
  (pc = "exit" /\ exitCode = 0 /\ ~toNumber(result.flashes).nan) =>
    /\ result.assessment.compliance.flashing
         <=> toNumber(result.flashes).v <= 3
    /\ HasIssue("Flashing frequency exceeds limit")
         <=> toNumber(result.flashes).v > 3

\* four flashes per second on a short, harmless animation
C12_Witness ==
  /\ pc = "exit" /\ exitCode = 0
  /\ result.flashes = Num(4)
  /\ result.type = Str(W_fade)
  /\ result.reducedMotion = Bool(FALSE)
  /\ ~result.assessment.compliance.flashing
  /\ HasIssue("Flashing frequency exceeds limit")

\* C13: for all durations, categories and flash rates, reducedMotion = true
\* gives compliance.reducedMotion = false and a reduced-motion issue, and
\* reducedMotion = false gives compliance.reducedMotion = true.
C13_ReducedMotionOverride ==
  (pc = "exit" /\ exitCode = 0) =>
    /\ result.reducedMotion = Bool(TRUE) =>
         /\ ~result.assessment.compliance.reducedMotion
         /\ HasIssue("User prefers reduced motion")
    /\ result.reducedMotion = Bool(FALSE) =>
         /\ result.assessment.compliance.reducedMotion
         /\ ~HasIssue("User prefers reduced motion")

\* a short fade without flashes is flagged because of the preference alone
C13_Witness ==
  /\ pc = "exit" /\ exitCode = 0
  /\ result.reducedMotion = Bool(TRUE)
  /\ result.type = Str(W_fade)
  /\ result.duration = Num(35)
  /\ result.assessment.compliance.flashing
  /\ result.assessment.compliance.duration
  /\ ~result.assessment.compliance.reducedMotion

HasRecommendation(text) ==
  \E i \in 1..Len(result.assessment.recommendations) :
    result.assessment.recommendations[i] = text

AutoAdvancingTooLong ==
  /\ IsAutoType(result.type)
  /\ ~toNumber(result.duration).nan
  /\ toNumber(result.duration).v > 5 * Tenths

\* C14: an auto-advancing category (contains carousel, slideshow,
\* auto-advance, ticker or marquee) lasting more than 5 seconds fails the
\* duration check and gets the pause/stop-control recommendation, its flashing
\* and reduced-motion checks still pass when flashes <= 3 and reducedMotion is
\* false, and the pause/stop-control recommendation appears in no other case.
C14_AutoAdvancingPauseControl ==
  (pc = "exit" /\ exitCode = 0) =>
    /\ HasRecommendation("Provide pause/stop controls or reduce duration")
         <=> AutoAdvancingTooLong
    /\ AutoAdvancingTooLong =>
         /\ ~result.assessment.compliance.duration
         /\ (/\ ~toNumber(result.flashes).nan
             /\ toNumber(result.flashes).v <= 3
             /\ result.reducedMotion = Bool(FALSE))
            => /\ result.assessment.compliance.flashing
               /\ result.assessment.compliance.reducedMotion

\* the carousel of six seconds without flashes
C14_Witness ==
  /\ pc = "exit" /\ exitCode = 0
  /\ result.type = Str(W_carousel)
  /\ result.duration = Num(6 * Tenths)
  /\ result.flashes = Num(0)
  /\ result.reducedMotion = Bool(FALSE)
  /\ HasRecommendation("Provide pause/stop controls or reduce duration")
  /\ ~result.assessment.compliance.duration
  /\ result.assessment.compliance.flashing
  /\ result.assessment.compliance.reducedMotion

AllFlagsTrue ==
  /\ result.assessment.compliance.reducedMotion
  /\ result.assessment.compliance.flashing
  /\ result.assessment.compliance.duration

\* C24: the list of issues of an assessment is empty if and only if the three
\* compliance flags (reducedMotion, flashing, duration) are all true, for
\* every combination of duration, category, flash rate and preference.
C24_NoIssuesIffAllFlags ==
  (pc = "exit" /\ exitCode = 0) =>
    (result.assessment.issues = <<>> <=> AllFlagsTrue)

\* a carousel of six seconds without the preference: the reduced-motion test
\* has an issue while compliance.reducedMotion is true, and the duration flag
\* is the one that is false
C24_Witness ==
  /\ pc = "exit" /\ exitCode = 0
  /\ result.type = Str(W_carousel)
  /\ result.duration = Num(6 * Tenths)
  /\ result.flashes = Num(0)
  /\ result.reducedMotion = Bool(FALSE)
  /\ HasIssue("Auto-playing duration exceeds limit")
  /\ result.assessment.compliance.reducedMotion
  /\ result.assessment.compliance.flashing
  /\ ~result.assessment.compliance.duration
  /\ ~AllFlagsTrue

-----------------------------------------------------------------------------
(* Skill metadata aggregator (build), src/unnamed/part_003                 *)
(*                                                                         *)
(* files is the list of SKILL.md files in glob order, each with the front  *)
(* matter gray-matter reads from it.  README.md is a sequence of lines     *)
(* (the text split at "\n"); a line is a run of '#' characters, a space    *)
(* when the run is not empty, and a text without "## " in it.               *)

\* rank of a character in the collation order: '-' before digits before
\* letters
CharRank(c) ==
  IF c = "-" THEN 0
  ELSE IF IndexOf(c, Digits) > 0 THEN IndexOf(c, Digits)
  ELSE IF IndexOf(c, LowerLetters) > 0 THEN 10 + IndexOf(c, LowerLetters)
  ELSE 40

\* a.localeCompare(b): -1, 0 or 1
RECURSIVE localeCompare(_, _)
localeCompare(a, b) ==
  IF Len(a) = 0 /\ Len(b) = 0 THEN 0
  ELSE IF Len(a) = 0 THEN -1
  ELSE IF Len(b) = 0 THEN 1
  ELSE IF CharRank(Head(a)) < CharRank(Head(b)) THEN -1
  ELSE IF CharRank(Head(a)) > CharRank(Head(b)) THEN 1
  ELSE localeCompare(Tail(a), Tail(b))

\* Array.prototype.sort with (a, b) => a.name.localeCompare(b.name); the
\* sort is stable
RECURSIVE sortByName(_)
sortByName(list) ==
  IF Len(list) <= 1 THEN list
  ELSE LET init == sortByName(SubSeq(list, 1, Len(list) - 1))
           last == list[Len(list)]
           k == Cardinality({i \in 1..Len(init) :
                               localeCompare(init[i].name.s, last.name.s) <= 0})
       IN  SubSeq(init, 1, k) \o <<last>> \o SubSeq(init, k + 1, Len(init))

\* the skills pushed by the forEach of getAllSkillsMetadata, in glob order
collectSkills(fs) ==
  LET kept == SelectSeq(fs, LAMBDA f :
                 f.parses /\ Truthy(f.name) /\ Truthy(f.description))
  IN  [i \in 1..Len(kept) |->
         [name |-> kept[i].name, description |-> kept[i].description,
          directory |-> kept[i].directory]]

\* a name that is not a string makes localeCompare / startsWith throw
HasNonStringName(skills) == \E i \in 1..Len(skills) : skills[i].name.t # "string"

getAllSkillsMetadata(fs) == sortByName(collectSkills(fs))

W_wcag == <<"w", "c", "a", "g", "-">>
W_deep == <<"-", "d", "e", "e", "p">>

toolSuffixes ==
  {<<"-", "f", "o", "c", "u", "s">>, <<"-", "t", "e", "s", "t">>,
   <<"-", "s", "i", "z", "e">>,
   <<"-", "c", "o", "n", "t", "r", "a", "s", "t">>,
   <<"-", "b", "l", "i", "n", "d", "n", "e", "s", "s">>,
   <<"-", "t", "a", "r", "g", "e", "t", "-", "s", "i", "z", "e">>}

isTool(name) == \E suffix \in toolSuffixes : endsWith(name, suffix)

NoFile == [exists |-> FALSE]

generateAgentsMd(skills, date) ==
  [exists |-> TRUE,
   entries |-> skills,
   installNames |-> [i \in 1..Min(3, Len(skills)) |-> skills[i].name],
   router |-> SelectSeq(skills, LAMBDA sk : startsWith(sk.name.s, W_wcag)),
   deep |-> SelectSeq(skills, LAMBDA sk : contains(sk.name.s, W_deep)),
   tools |-> SelectSeq(skills, LAMBDA sk : isTool(sk.name.s)),
   date |-> date]

\* a README line
Row(hashes, text) ==
  [hashes |-> hashes, text |-> text, n |-> 0, name |-> <<>>,
   description |-> Undef]
CountRow(n) == [Row(0, "This repository contains n WCAG accessibility skills:")
                  EXCEPT !.n = n]
ItemRow(skill) ==
  [Row(0, "- **name**: description")
     EXCEPT !.name = skill.name.s, !.description = skill.description]

\* the lines of installSection; the text ends with "\n\n", so the last two
\* lines are empty
installSection(skills) ==
  <<Row(2, "Installation"), Row(0, ""), Row(0, "[code fence] sh"),
    Row(0, "npx add-skill <repository-url>"), Row(0, "[code fence]"), Row(0, ""),
    Row(0, "Or install specific skills:"), Row(0, ""), Row(0, "[code fence] sh"),
    Row(0, "npx add-skill <repository-url> --skill wcag-audit-perceivable-color --skill wcag-audit-understandable-forms"),
    Row(0, "[code fence]"), Row(0, ""),
    Row(2, "Available Skills"), Row(0, ""), CountRow(Len(skills)), Row(0, "")>>
  \o (IF Len(skills) = 0 THEN <<Row(0, "")>>
      ELSE [i \in 1..Len(skills) |-> ItemRow(skills[i])])
  \o <<Row(0, ""), Row(0, "")>>

\* the line holds the text "## Installation"
HasInstallation(row) ==
  row.hashes >= 2 /\ row.text \in {"Installation", "Installation Guide"}

\* the line holds the text "## "
HasH2(row) == row.hashes >= 2

\* the least index of a set of line numbers, 0 when there is none
FirstIndex(S) ==
  IF S = {} THEN 0 ELSE CHOOSE i \in S : \A j \in S : i <= j

IsBlank(row) == row.hashes = 0 /\ row.text = ""

\* the README text updateReadme writes back
updateReadme(rows, skills) ==
  LET sec == installSection(skills)
      n == Len(sec)
      i == FirstIndex({x \in 1..Len(rows) : HasInstallation(rows[x])})
      j == FirstIndex({x \in (i + 1)..Len(rows) : HasH2(rows[x])})
      k == FirstIndex({x \in 1..Len(rows) : IsBlank(rows[x])})
  IN  IF i > 0
      THEN \* replace(/## Installation[\s\S]*?(?=## |$)/, installSection)
           SubSeq(rows, 1, i - 1)
           \o <<[sec[1] EXCEPT !.hashes = rows[i].hashes]>>
           \o SubSeq(sec, 2, n - 1)
           \o (IF j = 0 THEN <<sec[n]>>
               ELSE <<[rows[j] EXCEPT !.hashes = 2]>>
                    \o SubSeq(rows, j + 1, Len(rows)))
      ELSE \* lines.splice(insertIndex, 0, installSection.trim())
           SubSeq(rows, 1, k) \o SubSeq(sec, 1, n - 2)
           \o SubSeq(rows, k + 1, Len(rows))

categoryOf(name) ==
  IF isTool(name) THEN "tools"
  ELSE IF contains(name, W_deep) THEN "deep"
  ELSE IF startsWith(name, W_wcag) THEN "router"
  ELSE "other"

\* the skills object of skills.json: one key per name in first-insertion
\* order, holding the entry of the last skill of that name
skillsObject(skills) ==
  LET first == {i \in 1..Len(skills) :
                  \A j \in 1..(i - 1) : skills[j].name # skills[i].name}
      lastOf(i) == CHOOSE m \in 1..Len(skills) :
                     /\ skills[m].name = skills[i].name
                     /\ \A q \in (m + 1)..Len(skills) :
                          skills[q].name # skills[i].name
      keys == SelectSeq([i \in 1..Len(skills) |-> i], LAMBDA i : i \in first)
  IN  [x \in 1..Len(keys) |->
         [name |-> skills[keys[x]].name,
          description |-> skills[lastOf(keys[x])].description,
          directory |-> skills[lastOf(keys[x])].directory,
          category |-> categoryOf(skills[keys[x]].name.s)]]

generateSkillsConfig(skills, date) ==
  [exists |-> TRUE,
   version |-> "1.0.0",
   date |-> date,
   repository |-> "agent-skills-wcag",
   totalSkills |-> Len(skills),
   skills |-> skillsObject(skills)]

MaxRuns == 3
MaxDay == 2

N_wcag_color == <<"w", "c", "a", "g", "-", "c", "o", "l", "o", "r">>
N_wcag_text_deep ==
  <<"w", "c", "a", "g", "-", "t", "e", "x", "t", "-", "d", "e", "e", "p">>
N_wcag_text_size ==
  <<"w", "c", "a", "g", "-", "t", "e", "x", "t", "-", "s", "i", "z", "e">>
N_helper == <<"h", "e", "l", "p", "e", "r">>
N_wcag_forms == <<"w", "c", "a", "g", "-", "f", "o", "r", "m", "s">>

SkillFile(directory, name, description, parses) ==
  [directory |-> directory, name |-> name, description |-> description,
   parses |-> parses]

\* the SKILL.md files that may be on disk, in glob (path) order
FilePool ==
  <<SkillFile("a-color", Str(N_wcag_color), Str("Route color usage"), TRUE),
    SkillFile("b-broken", Str(N_helper), Str("Unreadable front matter"), FALSE),
    SkillFile("c-color-copy", Str(N_wcag_color), Str("Second color skill"), TRUE),
    SkillFile("d-helper", Str(N_helper), Str("Helper"), TRUE),
    SkillFile("e-nameless", Undef, Str("No name"), TRUE),
    SkillFile("f-numbered", Num(7), Str("Numeric name"), TRUE),
    SkillFile("g-text-deep", Str(N_wcag_text_deep), Str("Typography rules"), TRUE),
    SkillFile("h-text-size", Str(N_wcag_text_size), Str("Convert units"), TRUE),
    SkillFile("i-undescribed", Str(N_helper), Str(""), TRUE),
    SkillFile("j-forms", Str(N_wcag_forms), Num(5), TRUE)>>

\* the files of a subset of the pool, in pool order
FilesOf(S) ==
  SelectSeq([i \in 1..Len(FilePool) |-> i], LAMBDA i : i \in S)

FileSets ==
  {[x \in 1..Len(FilesOf(S)) |-> FilePool[FilesOf(S)[x]]] :
     S \in SUBSET (1..Len(FilePool))}

ReadmeSamples ==
  {<<Row(1, "WCAG Agent Skills"), Row(0, ""), Row(0, "A set of skills."),
     Row(0, ""), Row(2, "Installation"), Row(0, ""),
     Row(0, "npx add-skill vercel-labs/agent-skills"), Row(0, ""),
     Row(2, "Contributing"), Row(0, ""), Row(0, "Feel free to contribute!"),
     Row(0, "")>>,
   <<Row(1, "WCAG Agent Skills"), Row(0, ""), Row(0, "A set of skills."),
     Row(0, ""), Row(2, "License"), Row(0, "MIT")>>,
   <<Row(1, "WCAG Agent Skills")>>,
   <<Row(1, "WCAG Agent Skills"), Row(0, ""), Row(3, "Installation Guide"),
     Row(0, "npm install"), Row(3, "Usage"), Row(0, "run it")>>,
   <<Row(1, "WCAG Agent Skills"), Row(0, ""), Row(2, "Installation"),
     Row(0, "npm install")>>}

InitBuild ==
  /\ pc = "start"
  /\ options = Idle
  /\ exitCode = -1
  /\ stdout = <<>>
  /\ stderr = <<>>
  /\ result = Idle
  /\ files \in FileSets
  /\ readme \in ReadmeSamples
  /\ agentsMd = NoFile
  /\ skillsJson = NoFile
  /\ runs = 0

\* one run of build(): the process exits with the three artifacts written,
\* or dies on a TypeError before the first write when a name is no string
Build ==
  /\ runs < MaxRuns
  /\ \E date \in 1..MaxDay :
       LET skills == getAllSkillsMetadata(files)
       IN  IF HasNonStringName(collectSkills(files))
           THEN /\ exitCode' = 1
                /\ stderr' = <<Line("uncaught", "TypeError")>>
                /\ UNCHANGED <<readme, agentsMd, skillsJson>>
           ELSE /\ exitCode' = 0
                /\ stderr' = <<>>
                /\ agentsMd' = generateAgentsMd(skills, date)
                /\ readme' = updateReadme(readme, skills)
                /\ skillsJson' = generateSkillsConfig(skills, date)
  /\ pc' = "exit"
  /\ runs' = runs + 1
  /\ UNCHANGED <<options, stdout, result, files>>

NextBuild == Build

SpecBuild == InitBuild /\ [][NextBuild]_vars

\* an artifact without its generation timestamp
Undated(artifact) ==
  IF artifact.exists THEN [artifact EXCEPT !.date = 0] ELSE artifact

\* C1: running build() again on an unchanged skill set leaves AGENTS.md,
\* README.md and config/skills.json as the previous run wrote them, apart
\* from the generation timestamp.
C1_BuildIdempotent ==
  [][(runs >= 1 /\ runs' = runs + 1) =>
       /\ readme' = readme
       /\ Undated(agentsMd') = Undated(agentsMd)
       /\ Undated(skillsJson') = Undated(skillsJson)]_vars

-----------------------------------------------------------------------------
(* Font size converter, the first script of                                *)
(* src/skills/wcag-audit-perceivable-text-size/scripts/convert.js          *)
(*                                                                         *)
(* A size is an exact fraction v/den in lowest terms (v the numerator).    *)
(* v/0 with v > 0 is Infinity and NaN is kept apart.  Products and         *)
(* quotients are exact: the last-bit rounding that IEEE doubles add to     *)
(* every operation is not represented.  The pattern of parseFontSize       *)
(* admits no sign, so sizes are not negative.                              *)

NaNFrac == [t |-> "number", nan |-> TRUE, v |-> 0, den |-> 1]

RECURSIVE GCD(_, _)
GCD(a, b) == IF b = 0 THEN a ELSE GCD(b, a % b)

Frac(n, d) ==
  IF n = 0 /\ d = 0 THEN NaNFrac
  ELSE LET Reduced(g) ==
             [t |-> "number", nan |-> FALSE, v |-> n \div g, den |-> d \div g]
       IN  Reduced(GCD(n, d))

\* a * b
Times(a, b) ==
  IF a.nan \/ b.nan THEN NaNFrac
  ELSE LET Cross(g1, g2) ==
             Frac((a.v \div g1) * (b.v \div g2),
                  (a.den \div g2) * (b.den \div g1))
       IN  Cross(Max(1, GCD(a.v, b.den)), Max(1, GCD(b.v, a.den)))

\* a / b
Over(a, b) ==
  IF a.nan \/ b.nan THEN NaNFrac
  ELSE Times(a, [b EXCEPT !.v = b.den, !.den = b.v])

\* a >= n for an integer n; false when a is NaN
NotBelow(a, n) == ~a.nan /\ a.v >= n * a.den

\* Math.round(x): the nearest integer, halves upwards
MathRound(x) ==
  IF x.nan \/ x.den = 0 THEN x
  ELSE Frac((2 * x.v + x.den) \div (2 * x.den), 1)

WCAG_MINIMUM_BODY_TEXT == 14
WCAG_MINIMUM_HEADINGS == 18
DEFAULT_BASE_FONT == Frac(16, 1)
PT_TO_PX_RATIO == Frac(1333, 1000)

W_px == <<"p", "x">>
W_pt == <<"p", "t">>
W_em == <<"e", "m">>
W_rem == <<"r", "e", "m">>
W_heading == <<"h", "e", "a", "d", "i", "n", "g">>
W_body == <<"b", "o", "d", "y">>

Units == {W_px, W_pt, W_em, W_rem}

\* parseFloat of the digits matched by the pattern of parseFontSize
font_parseFloat(ip, fp) ==
  LET Scaled(scale) ==
        Frac(digitsValue(ip, 10, 0) * scale + digitsValue(fp, 10, 0), scale)
  IN  Scaled(digitsValue(<<"1">> \o [i \in 1..Len(fp) |-> "0"], 10, 0))

NoSize == [kind |-> "null"]
Size(value, unit) == [kind |-> "size", value |-> value, unit |-> unit]
MatchThrows == [kind |-> "TypeError"]

\* /^(\d+(?:\.\d+)?)\s*(px|pt|em|rem)?$/i on the input; input.match of a value
\* that is not a string throws
parseFontSize(input) ==
  IF ~Truthy(input) THEN NoSize
  ELSE IF input.t # "string" THEN MatchThrows
  ELSE LET Unit(number, rest) ==
             IF Len(rest) = 0 THEN Size(number, W_px)
             ELSE IF rest \in Units THEN Size(number, rest)
             ELSE NoSize
           Match(ip, fp, rest) ==
             IF Len(ip) = 0 THEN NoSize
             ELSE Unit(font_parseFloat(ip, fp), toLowerCase(trimStart(rest)))
           Decimals(ip, rest, fp) ==
             IF Len(fp) > 0
             THEN Match(ip, fp, SubSeq(rest, Len(fp) + 2, Len(rest)))
             ELSE Match(ip, <<>>, rest)
           Fraction(ip, rest) ==
             Decimals(ip, rest,
                      IF Len(rest) > 0 /\ Head(rest) = "."
                      THEN digitPrefix(Tail(rest), 10) ELSE <<>>)
           Whole(ip) ==
             Fraction(ip, SubSeq(input.s, Len(ip) + 1, Len(input.s)))
       IN  Whole(digitPrefix(input.s, 10))

toPixels(value, unit, baseFontSize) ==
  CASE unit = W_px -> value
    [] unit = W_pt -> Times(value, PT_TO_PX_RATIO)
    [] unit \in {W_em, W_rem} -> Times(value, baseFontSize)
    [] OTHER -> value

\* em and rem divided by the default base font whatever the base font is
fromPixels_defaultBase(pxValue, targetUnit, baseFontSize) ==
  CASE targetUnit = W_px -> pxValue
    [] targetUnit = W_pt -> Over(pxValue, PT_TO_PX_RATIO)
    [] targetUnit \in {W_em, W_rem} -> Over(pxValue, DEFAULT_BASE_FONT)
    [] OTHER -> pxValue

fromPixels(pxValue, targetUnit, baseFontSize) ==
  CASE targetUnit = W_px -> pxValue
    [] targetUnit = W_pt -> Over(pxValue, PT_TO_PX_RATIO)
    [] targetUnit \in {W_em, W_rem} -> Over(pxValue, baseFontSize)
    [] OTHER -> pxValue

\* `${rounded}${unit}`: whole pixels, three decimals for the other units
formatValue(value, unit) ==
  [value |-> IF unit = W_px THEN MathRound(value)
             ELSE Over(MathRound(Times(value, Frac(1000, 1))), Frac(1000, 1)),
   unit |-> unit]

\* the minimum of headings for the context 'heading' only
checkAccessibility_bodyOnly(pxValue, context) ==
  LET Check(minimum) ==
        [meetsMinimum |-> NotBelow(pxValue, minimum),
         minimumRequired |-> minimum,
         recommendations |->
           IF NotBelow(pxValue, minimum) THEN <<>>
           ELSE <<[kind |-> "Increase to at least", px |-> minimum,
                   pt |-> formatValue(fromPixels(Frac(minimum, 1), W_pt,
                                                 DEFAULT_BASE_FONT), W_pt),
                   for |-> IF context = W_heading THEN "headings"
                           ELSE "readable body text"]>>]
  IN  Check(WCAG_MINIMUM_BODY_TEXT)

checkAccessibility(pxValue, context) ==
  LET Check(minimum) ==
        [meetsMinimum |-> NotBelow(pxValue, minimum),
         minimumRequired |-> minimum,
         recommendations |->
           IF NotBelow(pxValue, minimum) THEN <<>>
           ELSE <<[kind |-> "Increase to at least", px |-> minimum,
                   pt |-> formatValue(fromPixels(Frac(minimum, 1), W_pt,
                                                 DEFAULT_BASE_FONT), W_pt),
                   for |-> IF context = W_heading THEN "headings"
                           ELSE "readable body text"]>>]
  IN  Check(IF context = W_heading THEN WCAG_MINIMUM_HEADINGS
            ELSE WCAG_MINIMUM_BODY_TEXT)

performConversion(input, targetUnit, baseFontSize) ==
  LET Converted(pxValue) ==
        [inputValue |-> input.value,
         inputUnit |-> input.unit,
         outputValue |-> fromPixels(pxValue, targetUnit, baseFontSize),
         outputUnit |-> targetUnit,
         pxValue |-> pxValue,
         baseFontSize |-> baseFontSize]
  IN  Converted(toPixels(input.value, input.unit, baseFontSize))

-----------------------------------------------------------------------------
(* performConversion as a function: a size, a target unit and a base font  *)
(* are converted, and the result is converted back to the unit it had.     *)

SizeQuarters == 80
BaseHalves == 40

SizeSamples ==
  {Frac(n, 4) : n \in 0..SizeQuarters} \cup {Frac(1333, 100), Frac(7502, 1000)}
BaseSamples == {Frac(b, 2) : b \in 1..BaseHalves}

InitConvert ==
  /\ pc = "start"
  /\ options \in {[input |-> Size(v, u1), targetUnit |-> u2, baseFontSize |-> b] :
                    v \in SizeSamples, u1 \in Units, u2 \in Units,
                    b \in {Frac(10, 1), Frac(16, 1), Frac(25, 2)}}
              \cup {[input |-> Size(Frac(3, 2), u1), targetUnit |-> u2,
                     baseFontSize |-> b] :
                    u1 \in Units, u2 \in Units, b \in BaseSamples}
  /\ exitCode = -1
  /\ stdout = <<>>
  /\ stderr = <<>>
  /\ result = Idle
  /\ files = Idle /\ readme = Idle /\ agentsMd = Idle /\ skillsJson = Idle
  /\ runs = 0

\* performConversion(input, targetUnit, baseFontSize)
Convert ==
  /\ pc = "start"
  /\ result' = <<performConversion(options.input, options.targetUnit,
                                   options.baseFontSize)>>
  /\ pc' = "converted"
  /\ UNCHANGED <<options, exitCode, stdout, stderr, files, readme, agentsMd,
                 skillsJson, runs>>

\* performConversion of the output, back to the unit of the input
ConvertBack ==
  /\ pc = "converted"
  /\ result' = Append(result,
                      performConversion(Size(result[1].outputValue,
                                             result[1].outputUnit),
                                        result[1].inputUnit,
                                        result[1].baseFontSize))
  /\ pc' = "returned"
  /\ UNCHANGED <<options, exitCode, stdout, stderr, files, readme, agentsMd,
                 skillsJson, runs>>

NextConvert == Convert \/ ConvertBack

SpecConvert == InitConvert /\ [][NextConvert]_vars

\* half a unit of the third decimal, the precision formatValue prints
RoundingTolerance == Frac(1, 2000)

\* |a - b| <= tol for fractions that are neither NaN nor infinite
Within(a, b, tol) ==
  /\ ~a.nan /\ ~b.nan /\ a.den # 0 /\ b.den # 0
  /\ LET Diff(x, y) == IF x >= y THEN x - y ELSE y - x
     IN  Diff(a.v * b.den, b.v * a.den) * tol.den <= tol.v * a.den * b.den

\* C15: for a positive base font size, every value and every pair of units
\* of {px, pt, em, rem}, converting the value to the other unit and the
\* result back returns the value within rounding tolerance.
C15_RoundTrip ==
  pc = "returned" =>
    /\ result[2].outputUnit = options.input.unit
    /\ Within(result[2].outputValue, options.input.value, RoundingTolerance)

\* 13.33pt to em at a base font of 12.5px and back
C15_Witness ==
  /\ pc = "returned"
  /\ options.input = Size(Frac(1333, 100), W_pt)
  /\ options.targetUnit = W_em
  /\ options.baseFontSize = Frac(25, 2)
  /\ result[1].outputValue # options.input.value
  /\ result[2].inputValue = result[1].outputValue
  /\ result[2].outputValue = options.input.value

-----------------------------------------------------------------------------
(* main() of the font size converter                                       *)

\* parseFloat(x) of a blob value: a number is itself, a string is read up to
\* the end of its leading decimal literal (a signed literal is not among the
\* inputs)
font_parseFloatOf(x) ==
  CASE x.t = "number" -> x
    [] x.t = "string" ->
         LET Value(ip, fp) ==
               IF Len(ip) = 0 /\ Len(fp) = 0 THEN NaNFrac
               ELSE font_parseFloat(ip, fp)
             Fraction(ip, rest) ==
               Value(ip, IF Len(rest) > 0 /\ Head(rest) = "."
                         THEN digitPrefix(Tail(rest), 10) ELSE <<>>)
             Whole(s1, ip) == Fraction(ip, SubSeq(s1, Len(ip) + 1, Len(s1)))
             Literal(s1) == Whole(s1, digitPrefix(s1, 10))
         IN  Literal(trimStart(x.s))
    [] OTHER -> NaNFrac

UsageFont ==
  <<Line("usage", "convert.js --from"), Line("usage", "convert.js --json")>>

\* parseInput of the converter: [ok |-> FALSE] stands for the process ending
\* inside it (usage, Invalid JSON input, or a TypeError on a flag given
\* without a value); a TypeError inside the try block is caught there
font_parseInput(opts) ==
  LET Failed(err) == [ok |-> FALSE, err |-> err]
      Uncaught == Failed(<<Line("uncaught", "TypeError")>>)
      InvalidJson == Failed(<<Line("error", "Invalid JSON input")>>)
      Parsed(input, targetUnit, baseFontSize, context) ==
        IF input.kind = "null" THEN Failed(UsageFont)
        ELSE [ok |-> TRUE, err |-> <<>>, input |-> input,
              targetUnit |-> targetUnit, baseFontSize |-> baseFontSize,
              context |-> context,
              accessibilityCheck |->
                Or(opts.accessibilityCheck, opts.accessibility_check)]
      Merged(input, targetUnit, baseFontSize, context, jfrom, jto, jbase, jctx) ==
        IF \/ jfrom.kind = "TypeError"
           \/ (Truthy(jto) /\ jto.t # "string")
           \/ (Truthy(jctx) /\ jctx.t # "string")
        THEN InvalidJson
        ELSE Parsed(IF jfrom.kind = "absent" THEN input ELSE jfrom,
                    IF Truthy(jto) THEN toLowerCase(jto.s) ELSE targetUnit,
                    IF Truthy(jbase) THEN font_parseFloatOf(jbase)
                    ELSE baseFontSize,
                    IF Truthy(jctx) THEN toLowerCase(jctx.s) ELSE context)
      FromJson(input, targetUnit, baseFontSize, context, parsed) ==
        IF ~Truthy(opts.json)
        THEN Parsed(input, targetUnit, baseFontSize, context)
        ELSE IF ~parsed.ok THEN InvalidJson
        ELSE Merged(input, targetUnit, baseFontSize, context,
                    IF Truthy(Field(parsed.obj, "from"))
                    THEN parseFontSize(Field(parsed.obj, "from"))
                    ELSE [kind |-> "absent"],
                    Field(parsed.obj, "to"),
                    Field(parsed.obj, "baseFontSize"),
                    Field(parsed.obj, "context"))
      FromFlags(input, baseInput) ==
        IF \/ input.kind = "TypeError"
           \/ (Truthy(opts.to) /\ opts.to.t # "string")
           \/ baseInput.kind = "TypeError"
           \/ (Truthy(opts.context) /\ opts.context.t # "string")
        THEN Uncaught
        ELSE FromJson(input,
                      IF Truthy(opts.to) THEN toLowerCase(opts.to.s) ELSE W_px,
                      IF baseInput.kind = "size"
                      THEN toPixels(baseInput.value, baseInput.unit,
                                    DEFAULT_BASE_FONT)
                      ELSE DEFAULT_BASE_FONT,
                      IF Truthy(opts.context) THEN toLowerCase(opts.context.s)
                      ELSE W_body,
                      JSONparse(opts.json))
  IN  FromFlags(IF Truthy(opts.from) THEN parseFontSize(opts.from)
                ELSE IF Truthy(opts.value) THEN parseFontSize(opts.value)
                ELSE NoSize,
                parseFontSize(Or(opts.baseFont, opts.base_font)))

font_main(opts) ==
  LET Report(p, conversion, accessibility) ==
        [exit |->
           IF Truthy(opts.json)
           THEN Exit(0,
                     <<[kind |-> "json",
                        input |-> formatValue(conversion.inputValue,
                                              conversion.inputUnit),
                        output |-> formatValue(conversion.outputValue,
                                               conversion.outputUnit),
                        baseFontSize |-> conversion.baseFontSize,
                        accessibility |->
                          IF Truthy(p.accessibilityCheck) THEN accessibility
                          ELSE Undef]>>,
                     <<>>)
           ELSE Exit(0,
                     <<Line("conversion",
                            <<formatValue(conversion.inputValue,
                                          conversion.inputUnit),
                              formatValue(conversion.outputValue,
                                          conversion.outputUnit),
                              conversion.baseFontSize>>)>>
                     \o (IF ~Truthy(p.accessibilityCheck) THEN <<>>
                         ELSE IF accessibility.meetsMinimum
                         THEN <<Line("Accessibility: PASS",
                                     <<conversion.pxValue,
                                       accessibility.minimumRequired>>)>>
                         ELSE <<Line("Accessibility: FAIL",
                                     <<conversion.pxValue,
                                       accessibility.minimumRequired,
                                       p.context>>)>>
                              \o (IF Len(accessibility.recommendations) > 0
                                  THEN <<Line("Recommendation",
                                              accessibility.recommendations[1])>>
                                  ELSE <<>>)),
                     <<>>),
         locals |->
           [context |-> p.context, accessibilityCheck |-> p.accessibilityCheck,
            conversion |-> conversion, accessibility |-> accessibility]]
      Checked(p, conversion) ==
        Report(p, conversion,
               IF Truthy(p.accessibilityCheck)
               THEN checkAccessibility(conversion.pxValue, p.context)
               ELSE Null)
      Run(p) ==
        IF ~p.ok THEN [exit |-> Exit(1, <<>>, p.err), locals |-> Idle]
        ELSE Checked(p, performConversion(p.input, p.targetUnit,
                                          p.baseFontSize))
  IN  Run(font_parseInput(opts))

FromFlagArgs ==
  {Undef, Bool(TRUE),
   Str(<<"1", "6", "p", "x">>), Str(<<"1", "4", "p", "x">>),
   Str(<<"1", "3", ".", "9", "p", "x">>), Str(<<"1", "8", "p", "x">>),
   Str(<<"1", "7", ".", "5", "p", "x">>),
   Str(<<"1", "0", ".", "5", "p", "t">>), Str(<<"1", "3", ".", "5", "1", "P", "T">>),
   Str(<<"1", "e", "m">>), Str(<<"0", ".", "8", "7", "5", "r", "e", "m">>),
   Str(<<"1", ".", "1", "2", "5", " ", "R", "E", "M">>),
   Str(<<"1", "2">>), Str(<<"a", "b", "c">>), Str(<<"1", ".", "p", "x">>),
   Str(<<"2", "v", "h">>)}

ToFlagArgs ==
  {Undef, Bool(TRUE), Str(W_px), Str(W_pt), Str(W_em), Str(W_rem),
   Str(<<"P", "T">>), Str(<<"v", "h">>)}

BaseFlagArgs ==
  {Undef, Str(<<"1", "6", "p", "x">>), Str(<<"2", "0", "p", "x">>),
   Str(<<"1", "2", "p", "t">>), Str(<<"1", "0">>), Str(<<"0", "p", "x">>)}

ContextFlagArgs ==
  {Undef, Str(W_heading), Str(W_body), Str(<<"H", "e", "a", "d", "i", "n", "g">>),
   Str(<<"c", "a", "p", "t", "i", "o", "n">>)}

CheckFlagArgs == {Undef, Bool(TRUE), Str(W_false)}

JsonFromValues ==
  {Undef, Str(<<"1", "8", "p", "x">>), Str(<<"1", "e", "m">>),
   Str(<<"b", "i", "g">>), Frac(16, 1)}
JsonBaseValues ==
  {Undef, Frac(20, 1), Str(<<"1", "7", ".", "5", "p", "x">>),
   Str(<<"a", "b", "c">>), Str(<<"0", "p", "x">>)}
JsonContextValues == {Undef, Str(W_heading), Bool(TRUE)}

FontOptions(from, value, to, base_font, context, accessibility_check, json) ==
  [from |-> from, value |-> value, to |-> to, baseFont |-> Undef,
   base_font |-> base_font, context |-> context,
   accessibilityCheck |-> Undef,
   accessibility_check |-> accessibility_check, json |-> json]

FontInputs ==
  {FontOptions(f, Undef, to, b, c, a, Undef) :
     f \in FromFlagArgs, to \in ToFlagArgs, b \in BaseFlagArgs,
     c \in ContextFlagArgs, a \in CheckFlagArgs}
  \cup {FontOptions(Undef, Str(<<"1", "4", "p", "t">>), Undef, b, c, a, Undef) :
     b \in {Undef, Bool(TRUE)}, c \in {Undef, Bool(TRUE)}, a \in CheckFlagArgs}
  \cup {[FontOptions(Str(<<"1", "5", "p", "x">>), Undef, Undef, Undef, Undef,
                     Undef, Undef)
           EXCEPT !.baseFont = b, !.accessibilityCheck = a] :
     b \in BaseFlagArgs, a \in CheckFlagArgs}
  \cup {FontOptions(f, Undef, Undef, Undef, c, a,
                    Json(Blob([from |-> jf, to |-> jt, baseFontSize |-> jb,
                               context |-> jc, accessibilityCheck |-> ja]))) :
     f \in {Undef, Str(<<"1", "4", "p", "x">>)}, c \in {Undef, Str(W_heading)},
     a \in {Undef, Bool(TRUE)},
     jf \in JsonFromValues, jt \in {Undef, Str(W_pt), Frac(1, 1)},
     jb \in JsonBaseValues, jc \in JsonContextValues,
     ja \in {Undef, Bool(TRUE)}}
  \cup {FontOptions(Str(<<"1", "4", "p", "x">>), Undef, Undef, Undef, Undef, a, j) :
     a \in {Undef, Bool(TRUE)}, j \in {BadJson, Bool(TRUE)}}

InitFont ==
  /\ pc = "start"
  /\ options \in FontInputs
  /\ exitCode = -1
  /\ stdout = <<>>
  /\ stderr = <<>>
  /\ result = Idle
  /\ files = Idle /\ readme = Idle /\ agentsMd = Idle /\ skillsJson = Idle
  /\ runs = 0

\* one run of the converter's main()
FontMain ==
  /\ pc = "start"
  /\ \E r \in {font_main(options)} :
         /\ exitCode' = r.exit.exitCode
         /\ stdout' = r.exit.stdout
         /\ stderr' = r.exit.stderr
         /\ result' = r.locals
  /\ pc' = "exit"
  /\ UNCHANGED <<options, files, readme, agentsMd, skillsJson, runs>>

NextFont == FontMain

SpecFont == InitFont /\ [][NextFont]_vars

FlagGiven ==
  Truthy(options.accessibilityCheck) \/ Truthy(options.accessibility_check)

\* an accessibility verdict among the lines printed
PrintedVerdict ==
  \E i \in 1..Len(stdout) :
    \/ stdout[i].kind \in {"Accessibility: PASS", "Accessibility: FAIL"}
    \/ (stdout[i].kind = "json" /\ stdout[i].accessibility # Undef)

\* C16: the accessibility check is opt-in and uses the minimum of the
\* context: a result is produced only when the accessibility-check flag is
\* given, and then meetsMinimum is true iff the pixel value is at least 18
\* for the context 'heading' and at least 14 for the context 'body'.
C16_OptInAccessibilityCheck ==
  (pc = "exit" /\ exitCode = 0) =>
    /\ (result.accessibility # Null) <=> FlagGiven
    /\ PrintedVerdict <=> FlagGiven
    /\ FlagGiven =>
         /\ result.context = W_heading =>
              (result.accessibility.meetsMinimum
                 <=> NotBelow(result.conversion.pxValue, 18))
         /\ result.context = W_body =>
              (result.accessibility.meetsMinimum
                 <=> NotBelow(result.conversion.pxValue, 14))

\* 16px passes as body text and fails as a heading
C16_Witness ==
  /\ pc = "exit" /\ exitCode = 0
  /\ FlagGiven
  /\ result.context = W_heading
  /\ result.conversion.pxValue = Frac(16, 1)
  /\ ~result.accessibility.meetsMinimum
  /\ result.accessibility.minimumRequired = 18
  /\ PrintedVerdict

\* a number that is neither NaN nor Infinity
Finite(x) == ~x.nan /\ x.den # 0

\* C27: after parseInput has succeeded the base font size is positive, for
\* every --base-font flag and every baseFontSize of a blob that is accepted,
\* so that no conversion divides by zero and every size of the result is
\* finite.
C27_PositiveBaseFontSize ==
  (pc = "exit" /\ exitCode = 0) =>
    /\ Finite(result.conversion.baseFontSize)
    /\ result.conversion.baseFontSize.v > 0
    /\ Finite(result.conversion.pxValue)
    /\ Finite(result.conversion.outputValue)

-----------------------------------------------------------------------------
(* Focus order validator,                                                  *)
(* src/skills/wcag-audit-operable-keyboard-focus/scripts/validate.js       *)
(*                                                                         *)
(* An array is a record with the sequence of its items.  Tab indices are   *)
(* numbers (NaN included); a blob whose tab indices are not numbers is not *)
(* among the inputs.                                                       *)

Arr(items) == [t |-> "array", a |-> items]

\* the keywords of getElementType, in the order of its tests
ElementKeywords ==
  <<[type |-> "header",
      words |-> {<<"h", "e", "a", "d", "e", "r">>,
                <<"h", "1">>,
                <<"l", "o", "g", "o">>}],
    [type |-> "nav",
      words |-> {<<"n", "a", "v">>,
                <<"m", "e", "n", "u">>,
                <<"n", "a", "v", "i", "g", "a", "t", "i", "o", "n">>}],
    [type |-> "main",
      words |-> {<<"m", "a", "i", "n">>,
                <<"c", "o", "n", "t", "e", "n", "t">>,
                <<"a", "r", "t", "i", "c", "l", "e">>}],
    [type |-> "button",
      words |-> {<<"b", "u", "t", "t", "o", "n">>,
                <<"b", "t", "n">>,
                <<"s", "u", "b", "m", "i", "t">>}],
    [type |-> "input",
      words |-> {<<"i", "n", "p", "u", "t">>,
                <<"f", "o", "r", "m">>,
                <<"f", "i", "e", "l", "d">>}],
    [type |-> "footer",
      words |-> {<<"f", "o", "o", "t", "e", "r">>,
                <<"b", "o", "t", "t", "o", "m">>}],
    [type |-> "link",
      words |-> {<<"l", "i", "n", "k">>,
                <<"a", " ", "h", "r", "e", "f">>}]>>

\* getElementType with the footer keywords tested before the input keywords
getElementType_footerFirst(element) ==
  LET Rank(i) == IF i = 5 THEN 6 ELSE IF i = 6 THEN 5 ELSE i
      Classify(el, hits) ==
        IF hits = {} THEN "other"
        ELSE ElementKeywords[CHOOSE i \in hits :
                               \A j \in hits : Rank(i) <= Rank(j)].type
      Hits(el) ==
        Classify(el, {i \in 1..Len(ElementKeywords) :
                        \E w \in ElementKeywords[i].words : contains(el, w)})
  IN  Hits(toLowerCase(element))

getElementType(element) ==
  LET Classify(el, hits) ==
        IF hits = {} THEN "other"
        ELSE ElementKeywords[CHOOSE i \in hits : \A j \in hits : i <= j].type
      Hits(el) ==
        Classify(el, {i \in 1..Len(ElementKeywords) :
                        \E w \in ElementKeywords[i].words : contains(el, w)})
  IN  Hits(toLowerCase(element))

\* array[i] for a 0-based i, undefined outside the array
At(array, i) == IF i >= 0 /\ i < Len(array) THEN array[i + 1] ELSE Undef

\* array.indexOf(x): the first 0-based position, -1 when x is not in it
indexOf(array, x) ==
  IF \E i \in 1..Len(array) : array[i] = x
  THEN (CHOOSE i \in 1..Len(array) :
          array[i] = x /\ \A j \in 1..(i - 1) : array[j] # x) - 1
  ELSE -1

\* a > b and a < b of two values; false when either side is not a number
GreaterThan(a, b) ==
  LET Compare(x, y) == ~x.nan /\ ~y.nan /\ x.v > y.v
  IN  Compare(toNumber(a), toNumber(b))

LessThan(a, b) == GreaterThan(b, a)

\* JSON.stringify of an array of numbers: NaN is written as null
stringify(array) ==
  [i \in 1..Len(array) |-> IF array[i] = NaN THEN Null ELSE array[i]]

\* validateLogicalOrder gives [thrown |-> TRUE] when el.toLowerCase() throws
\* on an element that is not a string.

\* without the comparison of the set of tab indices with the list
validateLogicalOrder_noDuplicates(elements, tabOrder, expectedOrder) ==
  LET Verdict(issues, recommendations) ==
        [logical |-> Len(issues) = 0,
         complete |-> Len(elements) = Len(tabOrder),
         issues |-> issues, recommendations |-> recommendations]
      Patterns(elementTypes, headerIndex, mainIndex, footerIndex, mismatch) ==
        Verdict(
          (IF mismatch
           THEN <<"Tab order does not match expected logical sequence">>
           ELSE <<>>)
          \o (IF /\ headerIndex # -1 /\ mainIndex # -1
                 /\ GreaterThan(At(tabOrder, headerIndex), At(tabOrder, mainIndex))
              THEN <<"Header appears after main content in tab order">>
              ELSE <<>>)
          \o (IF /\ footerIndex # -1 /\ mainIndex # -1
                 /\ LessThan(At(tabOrder, footerIndex), At(tabOrder, mainIndex))
              THEN <<"Footer appears before main content in tab order">>
              ELSE <<>>),
          (IF mismatch
           THEN <<"Adjust tab order to match expected reading sequence">>
           ELSE <<>>)
          \o (IF /\ headerIndex # -1 /\ mainIndex # -1
                 /\ GreaterThan(At(tabOrder, headerIndex), At(tabOrder, mainIndex))
              THEN <<"Move header/navigation before main content">>
              ELSE <<>>)
          \o (IF /\ footerIndex # -1 /\ mainIndex # -1
                 /\ LessThan(At(tabOrder, footerIndex), At(tabOrder, mainIndex))
              THEN <<"Move main content before footer">>
              ELSE <<>>)
          \o (IF Cardinality({i \in 1..Len(elementTypes) :
                                elementTypes[i] = "nav"}) > 1
              THEN <<"Consider providing skip links for multiple navigation sections">>
              ELSE <<>>))
      Indexed(elementTypes, mismatch) ==
        Patterns(elementTypes, indexOf(elementTypes, "header"),
                 indexOf(elementTypes, "main"),
                 indexOf(elementTypes, "footer"), mismatch)
  IN  IF \E i \in 1..Len(elements) : elements[i].t # "string"
      THEN [thrown |-> TRUE]
      ELSE [thrown |-> FALSE,
            validation |->
              Indexed([i \in 1..Len(elements) |->
                         getElementType(toLowerCase(elements[i].s))],
                      Truthy(expectedOrder)
                      /\ stringify(tabOrder) # stringify(expectedOrder.a))]

validateLogicalOrder(elements, tabOrder, expectedOrder) ==
  LET Verdict(issues, recommendations) ==
        [logical |-> Len(issues) = 0,
         complete |-> Len(elements) = Len(tabOrder),
         issues |-> issues, recommendations |-> recommendations]
      Patterns(elementTypes, headerIndex, mainIndex, footerIndex, mismatch) ==
        Verdict(
          (IF mismatch
           THEN <<"Tab order does not match expected logical sequence">>
           ELSE <<>>)
          \o (IF /\ headerIndex # -1 /\ mainIndex # -1
                 /\ GreaterThan(At(tabOrder, headerIndex), At(tabOrder, mainIndex))
              THEN <<"Header appears after main content in tab order">>
              ELSE <<>>)
          \o (IF /\ footerIndex # -1 /\ mainIndex # -1
                 /\ LessThan(At(tabOrder, footerIndex), At(tabOrder, mainIndex))
              THEN <<"Footer appears before main content in tab order">>
              ELSE <<>>)
          \o (IF Cardinality({tabOrder[i] : i \in 1..Len(tabOrder)}) # Len(tabOrder)
              THEN <<"Duplicate tab indices detected - may cause focus traps">>
              ELSE <<>>),
          (IF mismatch
           THEN <<"Adjust tab order to match expected reading sequence">>
           ELSE <<>>)
          \o (IF /\ headerIndex # -1 /\ mainIndex # -1
                 /\ GreaterThan(At(tabOrder, headerIndex), At(tabOrder, mainIndex))
              THEN <<"Move header/navigation before main content">>
              ELSE <<>>)
          \o (IF /\ footerIndex # -1 /\ mainIndex # -1
                 /\ LessThan(At(tabOrder, footerIndex), At(tabOrder, mainIndex))
              THEN <<"Move main content before footer">>
              ELSE <<>>)
          \o (IF Cardinality({tabOrder[i] : i \in 1..Len(tabOrder)}) # Len(tabOrder)
              THEN <<"Ensure each interactive element has a unique tab index">>
              ELSE <<>>)
          \o (IF Cardinality({i \in 1..Len(elementTypes) :
                                elementTypes[i] = "nav"}) > 1
              THEN <<"Consider providing skip links for multiple navigation sections">>
              ELSE <<>>))
      Indexed(elementTypes, mismatch) ==
        Patterns(elementTypes, indexOf(elementTypes, "header"),
                 indexOf(elementTypes, "main"),
                 indexOf(elementTypes, "footer"), mismatch)
  IN  IF \E i \in 1..Len(elements) : elements[i].t # "string"
      THEN [thrown |-> TRUE]
      ELSE [thrown |-> FALSE,
            validation |->
              Indexed([i \in 1..Len(elements) |->
                         getElementType(toLowerCase(elements[i].s))],
                      Truthy(expectedOrder)
                      /\ stringify(tabOrder) # stringify(expectedOrder.a))]

\* [...tabOrder].sort((a, b) => a - b) of a list without NaN
RECURSIVE sortedOrder(_)
sortedOrder(list) ==
  IF Len(list) = 0 THEN <<>>
  ELSE LET Least(m) ==
             <<list[m]>>
             \o sortedOrder([i \in 1..(Len(list) - 1) |->
                               IF i < m THEN list[i] ELSE list[i + 1]])
       IN  Least(CHOOSE i \in 1..Len(list) :
                   \A j \in 1..Len(list) : list[i].v <= list[j].v)

\* a list of two or more with a NaN in it has a gap wherever the sort puts
\* the NaN: every comparison with NaN is "different"
checkCompleteness(elements, tabOrder) ==
  LET Gaps(sorted) ==
        \E index \in 2..Len(sorted) : sorted[index].v # sorted[index - 1].v + 1
      Completeness(hasGaps) ==
        [issues |->
           IF Len(elements) # Len(tabOrder)
           THEN <<"Tab order length doesn't match element count">> ELSE <<>>,
         recommendations |->
           (IF Len(elements) # Len(tabOrder)
            THEN <<"Ensure all interactive elements are included in tab order">>
            ELSE <<>>)
           \o (IF hasGaps
               THEN <<"Consider using sequential tab indices for better predictability">>
               ELSE <<>>)]
  IN  Completeness(IF \E i \in 1..Len(tabOrder) : tabOrder[i].nan
                   THEN Len(tabOrder) >= 2
                   ELSE Gaps(sortedOrder(tabOrder)))

UsageFocus ==
  <<Line("usage", "validate.js --elements"), Line("usage", "validate.js --json")>>

\* parseInput of the validator: [ok |-> FALSE] stands for the process ending
\* inside it (usage, Invalid JSON input, or a TypeError on a flag given
\* without a value)
focus_parseInput(opts) ==
  LET Failed(err) == [ok |-> FALSE, err |-> err]
      Checked(elements, tabOrder, expectedOrder) ==
        IF Len(elements.a) = 0 \/ Len(tabOrder.a) = 0 THEN Failed(UsageFocus)
        ELSE [ok |-> TRUE, err |-> <<>>, elements |-> elements.a,
              tabOrder |-> tabOrder.a, expectedOrder |-> expectedOrder]
      FromJson(elements, tabOrder, expectedOrder, parsed) ==
        IF ~Truthy(opts.json) THEN Checked(elements, tabOrder, expectedOrder)
        ELSE IF ~parsed.ok
        THEN Failed(<<Line("error", "Invalid JSON input")>>)
        ELSE Checked(Or(Field(parsed.obj, "elements"), elements),
                     Or(Field(parsed.obj, "tabOrder"),
                        Or(Field(parsed.obj, "tab_order"), tabOrder)),
                     Or(Field(parsed.obj, "expectedOrder"),
                        Or(Field(parsed.obj, "expected_order"), expectedOrder)))
      Names(parts) == Arr([i \in 1..Len(parts) |-> Str(trim(parts[i]))])
      Numbers(parts) ==
        Arr([i \in 1..Len(parts) |-> parseInt(trim(parts[i]), 0)])
      FromFlags(tabOrderStr) ==
        IF \/ (Truthy(opts.elements) /\ opts.elements.t # "string")
           \/ (Truthy(tabOrderStr) /\ tabOrderStr.t # "string")
           \/ (Truthy(opts.expected) /\ opts.expected.t # "string")
        THEN Failed(<<Line("uncaught", "TypeError")>>)
        ELSE FromJson(IF Truthy(opts.elements)
                      THEN Names(split(opts.elements.s, ",")) ELSE Arr(<<>>),
                      IF Truthy(tabOrderStr)
                      THEN Numbers(split(tabOrderStr.s, ",")) ELSE Arr(<<>>),
                      IF Truthy(opts.expected)
                      THEN Numbers(split(opts.expected.s, ",")) ELSE Null,
                      JSONparse(opts.json))
  IN  FromFlags(Or(opts.tabOrder, opts.tab_order))

focus_main(opts) ==
  LET Report(p, validation) ==
        [exit |->
           IF Truthy(opts.json)
           THEN Exit(0,
                     <<[kind |-> "json", elements |-> p.elements,
                        tabOrder |-> p.tabOrder,
                        validation |->
                          [logical |-> validation.logical,
                           complete |-> validation.complete,
                           issues |-> validation.issues],
                        recommendations |-> validation.recommendations]>>,
                     <<>>)
           ELSE Exit(0,
                     <<Line("Validating focus order", Len(p.elements))>>
                     \o [i \in 1..Len(p.elements) |->
                           Line("order", <<Or(At(p.tabOrder, i - 1), Str(<<"?">>)),
                                           p.elements[i]>>)]
                     \o <<Line("Logical order", validation.logical),
                          Line("Complete coverage", validation.complete),
                          Line("No focus traps", TRUE)>>
                     \o [i \in 1..Len(validation.issues) |->
                           Line("issue", validation.issues[i])]
                     \o [i \in 1..Len(validation.recommendations) |->
                           Line("recommendation", validation.recommendations[i])]
                     \o (IF /\ Len(validation.issues) = 0
                            /\ Len(validation.recommendations) = 0
                         THEN <<Line("Focus order follows logical reading sequence", 0)>>
                         ELSE <<>>),
                     <<>>),
         locals |-> [elements |-> p.elements, tabOrder |-> p.tabOrder,
                     expectedOrder |-> p.expectedOrder,
                     validation |-> validation]]
      Combined(p, logicalValidation, completenessCheck) ==
        Report(p,
               [logical |-> logicalValidation.logical,
                complete |-> logicalValidation.complete
                             /\ Len(completenessCheck.issues) = 0,
                issues |-> logicalValidation.issues \o completenessCheck.issues,
                recommendations |-> logicalValidation.recommendations
                                    \o completenessCheck.recommendations])
      Validated(p, logical) ==
        IF logical.thrown
        THEN [exit |-> Exit(1, <<>>, <<Line("uncaught", "TypeError")>>),
              locals |-> Idle]
        ELSE Combined(p, logical.validation,
                      checkCompleteness(p.elements, p.tabOrder))
      Run(p) ==
        IF ~p.ok THEN [exit |-> Exit(1, <<>>, p.err), locals |-> Idle]
        ELSE Validated(p, validateLogicalOrder(p.elements, p.tabOrder,
                                               p.expectedOrder))
  IN  Run(focus_parseInput(opts))

MaxElements == 3

W_header == <<"h", "e", "a", "d", "e", "r">>
W_main == <<"m", "a", "i", "n">>
W_footer == <<"f", "o", "o", "t", "e", "r">>
W_nav == <<"n", "a", "v">>

FocusLabels == {W_header, <<"L", "o", "g", "o">>, W_main, W_footer}

RECURSIVE joinComma(_)
joinComma(parts) ==
  IF Len(parts) = 0 THEN <<>>
  ELSE IF Len(parts) = 1 THEN parts[1]
  ELSE parts[1] \o <<",">> \o joinComma(Tail(parts))

FocusOptions(elements, tab_order, expected, json) ==
  [elements |-> elements, tabOrder |-> Undef, tab_order |-> tab_order,
   expected |-> expected, json |-> json]

ElementsFlagArgs ==
  {Undef, Bool(TRUE),
   Str(joinComma(<<W_header, W_nav, W_main>>)),
   Str(joinComma(<<W_header, <<" ">> \o W_nav \o <<" ">>, <<"M", "a", "i", "n", " ", "M", "e", "n", "u">>, W_main,
                   <<"F", "o", "o", "t", "e", "r", "-", "F", "o", "r", "m">>>>)),
   Str(joinComma(<<W_footer, W_main>>))}

TabOrderFlagArgs ==
  {Undef, Bool(TRUE),
   Str(<<"1", ",", "2", ",", "3">>), Str(<<"1", ",", " ", "3", ",", "2">>),
   Str(<<"1", ",", "x", ",", "y">>), Str(<<"2", ",", "1">>),
   Str(<<"1", ",", "2", ",", "2", ",", "4", ",", "5">>),
   Str(<<"1", ",", "3", ",", "5", ",", "7", ",", "9">>)}

ExpectedFlagArgs ==
  {Undef, Bool(TRUE), Str(<<"1", ",", "2", ",", "3">>), Str(<<"2", ",", "1">>)}

JsonElements ==
  {Undef, Arr(<<>>), Arr(<<Str(W_header), Str(W_main), Str(W_footer)>>),
   Arr(<<Str(W_main), Num(7)>>), Arr(<<Str(W_nav), Str(<<"M", "a", "i", "n", " ", "M", "e", "n", "u">>)>>)}
JsonTabOrders ==
  {Undef, Arr(<<>>), Arr(<<Num(1), Num(2), Num(3)>>), Arr(<<Num(3), Num(1), Num(1)>>),
   Arr(<<Num(2), Num(1)>>)}
JsonExpected == {Undef, Arr(<<Num(1), Num(2), Num(3)>>), Arr(<<Num(2), Num(1)>>)}

FocusInputs ==
  {FocusOptions(e, t, x, Undef) :
          e \in ElementsFlagArgs, t \in TabOrderFlagArgs, x \in ExpectedFlagArgs}
  \cup {[FocusOptions(Str(joinComma(<<W_header, W_main>>)), Undef, Undef, Undef)
           EXCEPT !.tabOrder = t] : t \in TabOrderFlagArgs}
  \cup {FocusOptions(e, t, Undef,
                     Json(Blob([elements |-> je, tabOrder |-> jt,
                                tab_order |-> ju, expectedOrder |-> jx,
                                expected_order |-> Undef]))) :
          e \in {Undef, Str(joinComma(<<W_footer, W_main>>))},
          t \in {Undef, Str(<<"1", ",", "2">>)},
          je \in JsonElements, jt \in JsonTabOrders,
          ju \in {Undef, Arr(<<Num(1), Num(2)>>)}, jx \in JsonExpected}
  \cup {FocusOptions(Str(W_main), Str(<<"1">>), Undef, j) :
          j \in {BadJson, Bool(TRUE),
                 Json([expected_order |-> Arr(<<Num(2)>>)])}}

\* every list of up to MaxElements labels with every assignment of the tab
\* indices 1..MaxElements, and the inputs listed above
InitFocus ==
  /\ pc = "start"
  /\ \/ \E n \in 1..MaxElements :
          \E names \in [1..n -> FocusLabels], order \in [1..n -> 1..MaxElements] :
            options = FocusOptions(Str(joinComma(names)),
                                   Str(joinComma([i \in 1..n |->
                                                    intText(order[i])])),
                                   Undef, Undef)
     \/ options \in FocusInputs
  /\ exitCode = -1
  /\ stdout = <<>>
  /\ stderr = <<>>
  /\ result = Idle
  /\ files = Idle /\ readme = Idle /\ agentsMd = Idle /\ skillsJson = Idle
  /\ runs = 0

\* one run of the validator's main()
FocusMain ==
  /\ pc = "start"
  /\ \E r \in {focus_main(options)} :
         /\ exitCode' = r.exit.exitCode
         /\ stdout' = r.exit.stdout
         /\ stderr' = r.exit.stderr
         /\ result' = r.locals
  /\ pc' = "exit"
  /\ UNCHANGED <<options, files, readme, agentsMd, skillsJson, runs>>

NextFocus == FocusMain

SpecFocus == InitFocus /\ [][NextFocus]_vars

HasFocusIssue(text) ==
  \E i \in 1..Len(result.validation.issues) : result.validation.issues[i] = text

\* the positions of the elements of a type that have a tab index
PositionsOf(type) ==
  {i \in 1..Min(Len(result.elements), Len(result.tabOrder)) :
     getElementType(result.elements[i].s) = type /\ ~result.tabOrder[i].nan}

SomeHeaderAfterSomeMain ==
  \E h \in PositionsOf("header"), m \in PositionsOf("main") :
    result.tabOrder[h].v > result.tabOrder[m].v

SomeFooterBeforeSomeMain ==
  \E f \in PositionsOf("footer"), m \in PositionsOf("main") :
    result.tabOrder[f].v < result.tabOrder[m].v

SameIndexTwice ==
  \E i, j \in 1..Len(result.tabOrder) :
    i # j /\ result.tabOrder[i] = result.tabOrder[j]

\* C17: an issue is reported, and logical is false, whenever some header has
\* a larger tab index than some main and whenever some footer has a smaller
\* tab index than some main, also in lists with several headers, mains or
\* footers; when neither holds, the indices are unique and the counts match,
\* the result is logical PASS, complete PASS and no issues.
C17_HeaderMainFooterOrder ==
  (pc = "exit" /\ exitCode = 0) =>
    /\ SomeHeaderAfterSomeMain =>
         /\ HasFocusIssue("Header appears after main content in tab order")
         /\ ~result.validation.logical
    /\ SomeFooterBeforeSomeMain =>
         /\ HasFocusIssue("Footer appears before main content in tab order")
         /\ ~result.validation.logical
    /\ (/\ ~SomeHeaderAfterSomeMain /\ ~SomeFooterBeforeSomeMain
        /\ ~SameIndexTwice
        /\ Len(result.elements) = Len(result.tabOrder)
        /\ result.expectedOrder = Null)
       => /\ result.validation.logical
          /\ result.validation.complete
          /\ result.validation.issues = <<>>

\* C18: the duplicate-index issue is reported, and logical is false, if and
\* only if two positions of tabOrder hold the same index.
C18_DuplicateIndices ==
  (pc = "exit" /\ exitCode = 0) =>
    /\ HasFocusIssue("Duplicate tab indices detected - may cause focus traps")
         <=> SameIndexTwice
    /\ SameIndexTwice => ~result.validation.logical

\* header, main and footer in the right order with the index 2 given twice
C18_Witness ==
  /\ pc = "exit" /\ exitCode = 0
  /\ result.elements = <<Str(W_header), Str(W_main), Str(W_footer)>>
  /\ result.tabOrder = <<Num(1), Num(2), Num(2)>>
  /\ HasFocusIssue("Duplicate tab indices detected - may cause focus traps")
  /\ Len(result.validation.issues) = 1
  /\ ~result.validation.logical

\* C26: the text report never prints "No focus traps: PASS" when the
\* validation found duplicate tab indices.
C26_NoTrapPassWithDuplicates ==
  (/\ pc = "exit" /\ exitCode = 0
   /\ HasFocusIssue("Duplicate tab indices detected - may cause focus traps"))
  => ~\E i \in 1..Len(stdout) :
        stdout[i].kind = "No focus traps" /\ stdout[i].value = TRUE

-----------------------------------------------------------------------------
(* getElementType on its own: a label is classified and the type kept      *)

MaxWords == 2

UpperChar(c) ==
  IF IndexOf(c, LowerLetters) > 0
  THEN UpperLetters[IndexOf(c, LowerLetters)]
  ELSE c

\* every keyword of getElementType, and a word that holds none of them
LabelWords ==
  UNION {ElementKeywords[i].words : i \in 1..Len(ElementKeywords)}
    \cup {<<"x">>}

RECURSIVE joinDash(_)
joinDash(parts) ==
  IF Len(parts) = 0 THEN <<>>
  ELSE IF Len(parts) = 1 THEN parts[1]
  ELSE parts[1] \o <<"-">> \o joinDash(Tail(parts))

\* the labels of up to MaxWords words, as written and in capitals
InitElementType ==
  /\ pc = "start"
  /\ \E n \in 1..MaxWords :
       \E words \in [1..n -> LabelWords], capitals \in BOOLEAN :
         options = (IF capitals
                    THEN Str([i \in 1..Len(joinDash(words)) |->
                                UpperChar(joinDash(words)[i])])
                    ELSE Str(joinDash(words)))
  /\ exitCode = -1
  /\ stdout = <<>>
  /\ stderr = <<>>
  /\ result = Idle
  /\ files = Idle /\ readme = Idle /\ agentsMd = Idle /\ skillsJson = Idle
  /\ runs = 0

GetElementType ==
  /\ pc = "start"
  /\ \E r \in {getElementType(options.s)} : result' = r
  /\ pc' = "exit"
  /\ UNCHANGED <<options, exitCode, stdout, stderr, files, readme, agentsMd,
                 skillsJson, runs>>

NextElementType == GetElementType

SpecElementType == InitElementType /\ [][NextElementType]_vars

CategoryOrder ==
  <<"header", "nav", "main", "button", "input", "footer", "link">>

\* some keyword of the category occurs in the label, whatever its case
KeywordOccurs(category, label) ==
  \E i \in 1..Len(ElementKeywords) :
    /\ ElementKeywords[i].type = category
    /\ \E w \in ElementKeywords[i].words : contains(toLowerCase(label), w)

\* C23: a label gets the first category, in the order header, nav, main,
\* button, input, footer, link, one of whose keywords occurs in it without
\* regard to case (a label with a footer keyword and an input keyword is an
\* input), and 'other' when no keyword occurs.
C23_FirstCategoryInOrder ==
  pc = "exit" =>
    /\ \A k \in 1..Len(CategoryOrder) :
         (/\ KeywordOccurs(CategoryOrder[k], options.s)
          /\ \A j \in 1..(k - 1) : ~KeywordOccurs(CategoryOrder[j], options.s))
         => result = CategoryOrder[k]
    /\ (\A k \in 1..Len(CategoryOrder) :
          ~KeywordOccurs(CategoryOrder[k], options.s))
       => result = "other"

\* the label FOOTER-FORM holds a footer keyword and an input keyword
C23_Witness ==
  /\ pc = "exit"
  /\ options = Str(<<"F", "O", "O", "T", "E", "R", "-", "F", "O", "R", "M">>)
  /\ KeywordOccurs("footer", options.s)
  /\ KeywordOccurs("input", options.s)
  /\ result = "input"

-----------------------------------------------------------------------------
(* Skill metadata validator, the third script of                           *)
(* src/skills/wcag-audit-perceivable-text-size/scripts/convert.js          *)
(*                                                                         *)
(* A SKILL.md file is what gray-matter makes of it: the front matter       *)
(* fields name and description and the body text (content), or an          *)
(* exception when the file cannot be read or parsed.                       *)

NameMaxLength == 64
DescriptionMaxLength == 1024

W_when_to_use == <<"#", "#", " ", "W", "h", "e", "n", " ", "t", "o", " ", "U", "s", "e">>
W_when_to_use_3 == <<"#", "#", "#", " ", "W", "h", "e", "n", " ", "t", "o", " ", "U", "s", "e">>

\* /^[a-z0-9-]{1,64}$/.test(name)
NamePattern(name) ==
  /\ Len(name) >= 1 /\ Len(name) <= NameMaxLength
  /\ \A i \in 1..Len(name) :
       \/ IndexOf(name[i], LowerLetters) > 0
       \/ IndexOf(name[i], Digits) > 0
       \/ name[i] = "-"

\* the name tested against the pattern only
validateSkillFile_nameOnly(file) ==
  IF ~file.parses
  THEN [errors |-> <<"Failed to parse SKILL.md">>, warnings |-> <<>>]
  ELSE [errors |->
          (IF ~Truthy(file.name)
           THEN <<"Missing required \"name\" field in frontmatter">>
           ELSE IF file.name.t # "string"
           THEN <<"\"name\" field must be a string">>
           ELSE IF ~NamePattern(file.name.s)
           THEN <<"\"name\" field must be lowercase, contain only letters, numbers, and hyphens (1-64 chars)">>
           ELSE <<>>),
        warnings |->
          (IF Len(trim(file.content)) = 0
           THEN <<"SKILL.md has no content body (only frontmatter)">>
           ELSE <<>>)
          \o (IF /\ ~contains(file.content, W_when_to_use)
                 /\ ~contains(file.content, W_when_to_use_3)
              THEN <<"Consider adding a \"When to Use\" section">>
              ELSE <<>>)]

validateSkillFile(file) ==
  IF ~file.parses
  THEN [errors |-> <<"Failed to parse SKILL.md">>, warnings |-> <<>>]
  ELSE [errors |->
          (IF ~Truthy(file.name)
           THEN <<"Missing required \"name\" field in frontmatter">>
           ELSE IF file.name.t # "string"
           THEN <<"\"name\" field must be a string">>
           ELSE IF ~NamePattern(file.name.s)
           THEN <<"\"name\" field must be lowercase, contain only letters, numbers, and hyphens (1-64 chars)">>
           ELSE <<>>)
          \o (IF ~Truthy(file.description)
              THEN <<"Missing required \"description\" field in frontmatter">>
              ELSE IF file.description.t # "string"
              THEN <<"\"description\" field must be a string">>
              ELSE IF \/ Len(file.description.s) < 1
                      \/ Len(file.description.s) > DescriptionMaxLength
              THEN <<"\"description\" field must be 1-1024 characters">>
              ELSE <<>>),
        warnings |->
          (IF Len(trim(file.content)) = 0
           THEN <<"SKILL.md has no content body (only frontmatter)">>
           ELSE <<>>)
          \o (IF /\ ~contains(file.content, W_when_to_use)
                 /\ ~contains(file.content, W_when_to_use_3)
              THEN <<"Consider adding a \"When to Use\" section">>
              ELSE <<>>)]

\* the lines the forEach of validateAllSkills prints for one file
fileReport(directory, report) ==
  <<Line("Validating", directory)>>
  \o (IF Len(report.errors) > 0
      THEN <<Line("Errors:", Len(report.errors))>>
           \o [i \in 1..Len(report.errors) |-> Line("error", report.errors[i])]
      ELSE <<>>)
  \o (IF Len(report.warnings) > 0
      THEN <<Line("Warnings:", Len(report.warnings))>>
           \o [i \in 1..Len(report.warnings) |->
                 Line("warning", report.warnings[i])]
      ELSE <<>>)
  \o (IF Len(report.errors) = 0 /\ Len(report.warnings) = 0
      THEN <<Line("Valid", directory)>> ELSE <<>>)

\* the totals and the lines after the forEach over the first n files
RECURSIVE validateEach(_, _)
validateEach(skillFiles, n) ==
  IF n = 0
  THEN [totalErrors |-> 0, totalWarnings |-> 0, reports |-> <<>>, lines |-> <<>>]
  ELSE LET Next(before, report) ==
             [totalErrors |-> before.totalErrors + Len(report.errors),
              totalWarnings |-> before.totalWarnings + Len(report.warnings),
              reports |-> Append(before.reports, report),
              lines |-> before.lines
                        \o fileReport(skillFiles[n].directory, report)]
       IN  Next(validateEach(skillFiles, n - 1),
                validateSkillFile(skillFiles[n]))

validateAllSkills(skillFiles) ==
  LET Summary(totals) ==
        [exit |->
           Exit(IF totals.totalErrors > 0 THEN 1 ELSE 0,
                <<Line("Validating WCAG skills", 0),
                  Line("Found skill(s) to validate", Len(skillFiles))>>
                \o totals.lines
                \o <<Line("Skills checked", Len(skillFiles)),
                     Line("Total errors", totals.totalErrors),
                     Line("Total warnings", totals.totalWarnings),
                     Line(IF totals.totalErrors > 0
                          THEN "Validation failed due to errors"
                          ELSE IF totals.totalWarnings > 0
                          THEN "Validation passed with warnings"
                          ELSE "All skills validated successfully", 0)>>,
                <<>>),
         locals |-> [totalErrors |-> totals.totalErrors,
                     totalWarnings |-> totals.totalWarnings,
                     reports |-> totals.reports]]
  IN  IF Len(skillFiles) = 0
      THEN [exit |-> Exit(1, <<Line("Validating WCAG skills", 0)>>,
                          <<Line("error", "No SKILL.md files found in skills directory")>>),
            locals |-> [totalErrors |-> 0, totalWarnings |-> 0,
                        reports |-> <<>>]]
      ELSE Summary(validateEach(skillFiles, Len(skillFiles)))

MaxFiles == 2

Repeat(c, n) == [i \in 1..n |-> c]

NameSamples ==
  {Undef, Num(7), Str(<<>>), Str(N_wcag_color), Str(<<"a">>), Str(<<"9", "-", "9">>),
   Str(Repeat("a", NameMaxLength)), Str(Repeat("a", NameMaxLength + 1)),
   Str(<<"W", "c", "a", "g">>), Str(<<"w", "c", "a", "g", " ", "x">>),
   Str(<<"w", "c", "a", "g", "_", "x">>)}

DescriptionSamples ==
  {Undef, Bool(TRUE), Str(<<>>), Str(<<"d">>),
   Str(Repeat("d", DescriptionMaxLength)),
   Str(Repeat("d", DescriptionMaxLength + 1))}

ContentSamples ==
  {<<>>, <<" ", " ">>, <<"B", "o", "d", "y">>, W_when_to_use,
   <<"#", " ", "T">> \o W_when_to_use_3 \o <<" ", "x">>,
   <<"#", "#", " ", "w", "h", "e", "n", " ", "t", "o", " ", "u", "s", "e">>}

MetadataFile(directory, name, description, content, parses) ==
  [directory |-> directory, name |-> name, description |-> description,
   content |-> content, parses |-> parses]

\* files for the runs over several files: valid, valid with warnings, with
\* one error, with two errors, unreadable
SeveralFilesPool ==
  {MetadataFile("valid", Str(N_wcag_color), Str(<<"d">>), W_when_to_use, TRUE),
   MetadataFile("warned", Str(N_wcag_color), Str(<<"d">>), <<>>, TRUE),
   MetadataFile("unnamed", Undef, Str(<<"d">>), W_when_to_use, TRUE),
   MetadataFile("empty", Undef, Undef, <<>>, TRUE),
   MetadataFile("unreadable", Undef, Undef, <<>>, FALSE)}

InitValidate ==
  /\ pc = "start"
  /\ \/ files = <<>>
     \/ \E name \in NameSamples, description \in DescriptionSamples,
           content \in ContentSamples :
          files = <<MetadataFile("skill", name, description, content, TRUE)>>
     \/ \E n \in 1..MaxFiles : files \in [1..n -> SeveralFilesPool]
  /\ options = Idle
  /\ exitCode = -1
  /\ stdout = <<>>
  /\ stderr = <<>>
  /\ result = Idle
  /\ readme = Idle /\ agentsMd = Idle /\ skillsJson = Idle
  /\ runs = 0

\* one run of validateAllSkills() over the SKILL.md files glob finds
ValidateAllSkills ==
  /\ pc = "start"
  /\ \E r \in {validateAllSkills(files)} :
         /\ exitCode' = r.exit.exitCode
         /\ stdout' = r.exit.stdout
         /\ stderr' = r.exit.stderr
         /\ result' = r.locals
  /\ pc' = "exit"
  /\ UNCHANGED <<options, files, readme, agentsMd, skillsJson, runs>>

NextValidate == ValidateAllSkills

SpecValidate == InitValidate /\ [][NextValidate]_vars

\* name is a string of 1 to 64 characters of a-z, 0-9 and '-', description
\* is a string of 1 to 1024 characters
ValidMetadata(file) ==
  /\ file.parses
  /\ file.name.t = "string"
  /\ Len(file.name.s) \in 1..64
  /\ \A i \in 1..Len(file.name.s) :
       \E k \in 1..37 :
         file.name.s[i] = (LowerLetters \o Digits \o <<"-">>)[k]
  /\ file.description.t = "string"
  /\ Len(file.description.s) \in 1..1024

\* C19: validateSkillFile returns no errors if and only if the name is a
\* string matching [a-z0-9-]{1,64} and the description is a string of length
\* 1 to 1024; a missing 'When to Use' heading or an empty body adds only
\* warnings and never an error.
C19_ErrorsIffInvalidMetadata ==
  pc = "exit" =>
    \A i \in 1..Len(result.reports) :
      (result.reports[i].errors = <<>>) <=> ValidMetadata(files[i])

\* a valid name and description with an empty body: two warnings, no error
C19_Witness ==
  /\ pc = "exit"
  /\ Len(files) = 1
  /\ files[1].name = Str(Repeat("a", 64))
  /\ files[1].description = Str(Repeat("d", 1024))
  /\ files[1].content = <<>>
  /\ result.reports[1].errors = <<>>
  /\ Len(result.reports[1].warnings) = 2

\* C20: the validator exits with code 1 exactly when at least one
\* validation error was found across the scanned files, and with code 0
\* otherwise; warnings alone never produce exit code 1.
C20_ExitOneIffErrors ==
  pc = "exit" =>
    /\ exitCode \in {0, 1}
    /\ exitCode = 1 <=> result.totalErrors >= 1

-----------------------------------------------------------------------------
(* Properties of the artifacts the aggregator writes                       *)

\* the entry of skills.json under a name
ConfigEntry(name) ==
  skillsJson.skills[CHOOSE i \in 1..Len(skillsJson.skills) :
                      skillsJson.skills[i].name = name]

EndsWithToolSuffix(name) ==
  \/ endsWith(name, <<"-", "f", "o", "c", "u", "s">>)
  \/ endsWith(name, <<"-", "t", "e", "s", "t">>)
  \/ endsWith(name, <<"-", "s", "i", "z", "e">>)
  \/ endsWith(name, <<"-", "c", "o", "n", "t", "r", "a", "s", "t">>)
  \/ endsWith(name, <<"-", "b", "l", "i", "n", "d", "n", "e", "s", "s">>)
  \/ endsWith(name, <<"-", "t", "a", "r", "g", "e", "t", "-", "s", "i", "z", "e">>)

\* C21: every skill of skills.json has exactly one category, a function of
\* its name alone: 'tools' when the name ends with a tool suffix, otherwise
\* 'deep' when it contains '-deep', otherwise the default 'router'; no skill
\* has any other category.
C21_ThreeCategories ==
  skillsJson.exists =>
    \A i \in 1..Len(skillsJson.skills) :
      skillsJson.skills[i].category =
        (IF EndsWithToolSuffix(skillsJson.skills[i].name.s) THEN "tools"
         ELSE IF contains(skillsJson.skills[i].name.s, <<"-", "d", "e", "e", "p">>)
         THEN "deep"
         ELSE "router")

\* name is a string matching [a-z0-9-]{1,64}, description a string of
\* length 1 to 1024
ValidatedEntry(name, description) ==
  /\ name.t = "string"
  /\ Len(name.s) \in 1..64
  /\ \A i \in 1..Len(name.s) :
       \E k \in 1..37 : name.s[i] = (LowerLetters \o Digits \o <<"-">>)[k]
  /\ description.t = "string"
  /\ Len(description.s) \in 1..1024

\* C22: every skill entry written to AGENTS.md, README.md or
\* config/skills.json has a name matching [a-z0-9-]{1,64} and a description
\* that is a string of length 1 to 1024; a SKILL.md that fails validation
\* contributes no entry.
C22_ValidatedEntriesOnly ==
  (runs >= 1 /\ exitCode = 0) =>
    /\ \A i \in 1..Len(agentsMd.entries) :
         ValidatedEntry(agentsMd.entries[i].name, agentsMd.entries[i].description)
    /\ \A i \in 1..Len(skillsJson.skills) :
         ValidatedEntry(skillsJson.skills[i].name,
                        skillsJson.skills[i].description)
    /\ \A i \in 1..Len(readme) :
         readme[i].text = "- **name**: description"
           => ValidatedEntry(Str(readme[i].name), readme[i].description)

ListedUnder(list, name) == \E i \in 1..Len(list) : list[i].name = name

\* C28: a skill is listed under 'Router Skills' in AGENTS.md iff its
\* category in skills.json is 'router', under 'Deep Domain Skills' iff it is
\* 'deep', and under 'Accessibility Tools' iff it is 'tools'; no skill is
\* listed under more than one category of AGENTS.md.
C28_CategoriesAgree ==
  (agentsMd.exists /\ skillsJson.exists) =>
    \A i \in 1..Len(agentsMd.entries) :
      LET name == agentsMd.entries[i].name
      IN  /\ ListedUnder(agentsMd.router, name)
               <=> ConfigEntry(name).category = "router"
          /\ ListedUnder(agentsMd.deep, name)
               <=> ConfigEntry(name).category = "deep"
          /\ ListedUnder(agentsMd.tools, name)
               <=> ConfigEntry(name).category = "tools"
          /\ ~(ListedUnder(agentsMd.router, name) /\ ListedUnder(agentsMd.deep, name))
          /\ ~(ListedUnder(agentsMd.router, name) /\ ListedUnder(agentsMd.tools, name))
          /\ ~(ListedUnder(agentsMd.deep, name) /\ ListedUnder(agentsMd.tools, name))

=============================================================================
